---------------------------- MODULE Spec2Model ----------------------------
(***************************************************************************)
(* Model of espn_sidepots: the weekly scoring pipeline (fetch_week_scores  *)
(* followed by add_optimal_points) and the survivor elimination loop       *)
(* (run_survivor).                                                         *)
(*                                                                         *)
(* Points are integers counted in thousandths of a point (20.0 points is   *)
(* 20000), so that round(x, 2) is a real conversion: it rounds to a        *)
(* multiple of 10.                                                         *)
(***************************************************************************)
EXTENDS Integers, Sequences, FiniteSets, TLC

VARIABLES
    \* ---- scoring pipeline (espn_client.fetch_week_scores, scoring.py)
    roster,        \* the roster entries of one team-week
    slot_counts,   \* league_rules["slot_counts"]: a dict, kept in key order
    tws,           \* the TeamWeekScore fetch_week_scores built, or NoValue
    df_row,        \* the row add_optimal_points produced, or NoValue
    pc,            \* position in the pipeline
    \* ---- run_survivor (survivor.py): arguments
    df,                  \* the input table
    teams,               \* sorted team ids of the table
    labels,              \* team id -> display label
    start_week,
    tiebreaks,
    weeks_scope,         \* a set of weeks, empty for None
    last_completed_week, \* None or Some(week)
    \* ---- run_survivor: locals
    week,                \* the loop variable
    week_scores,         \* the rows of the week the loop read last
    seen_teams,          \* the teams with a row in the weeks read so far
    cumulative_eff,
    cumulative_points,
    alive,
    eliminated,
    eliminations,
    summary,
    sv_pc,               \* "start", "loop" or "returned"
    \* ---- update_efficiency (efficiency.py), as main calls it week by week
    stats,               \* team id -> EffStat
    seen,                \* the (team_id, week) pairs already counted
    delivered,           \* the batches passed so far, in call order
    \* ---- compute_pir (pir.py)
    pir_args,
    pir_result,
    \* ---- season_efficiency (efficiency.py)
    se_args,
    se_result,
    \* ---- espn_lineup._pos applied to a raw label, then to its own result
    pos_raw,             \* the argument
    pos_once,            \* _pos(raw)
    pos_twice,           \* _pos(_pos(raw))
    pos_pc,              \* "idle", "start", "once" or "twice"
    \* ---- EffStat.efficiency, read once the season's calls are made
    eff_values,          \* team id -> the efficiency read
    eff_pc,              \* "idle", "updating" or "read"
    \* ---- espn_client.last_completed_week
    lcw_args,            \* start_week, end_week, the settings and the weeks' matchups
    lcw_upper,           \* upper_bound
    lcw_week,            \* the loop variable
    lcw_last,            \* last_complete
    lcw_fetched,         \* the weeks fetch_week_matchups was called for, in call order
    lcw_result,          \* the value returned
    lcw_pc,              \* "idle", "start", "loop", "broke" or "returned"
    \* ---- espn_client._json_get
    jg_args,             \* retries and the value of ESPN_USE_ALT_HOST
    jg_hosts,            \* _host_priority()
    jg_attempts,         \* attempts
    jg_host,             \* position of the outer loop in jg_hosts
    jg_attempt,          \* attempt, the inner loop variable
    jg_log,              \* the requests made and the sleeps taken, in order
    jg_result,           \* the payload returned or the error raised
    jg_pc,               \* "idle", "start", "loop", "exhausted", "returned", "raised"
    \* ---- espn_safe.league_get_safe
    lgs_attempt,         \* attempt, the loop variable
    lgs_calls,           \* the responses of self._get, in call order
    lgs_log,             \* the records passed to logger.log_request
    lgs_slept,           \* the delays slept
    lgs_result,
    lgs_pc,              \* "idle", "loop", "returned" or "raised"
    \* ---- main: the run lock of two invocations
    lk_file,             \* the lock file: absent, or its mtime and its writer
    lk_clock,            \* time.time(), in seconds
    lk_procs,            \* invocation -> its position, its now and lock_acquired
    lk_unlinked          \* the unlink calls that removed a file: who removed whose

scoringVars == <<roster, slot_counts, tws, df_row, pc>>

survivorArgs ==
    <<df, labels, start_week, tiebreaks, weeks_scope, last_completed_week>>

survivorLocals ==
    <<teams, week, week_scores, seen_teams, cumulative_eff, cumulative_points,
      alive, eliminated, eliminations, summary, sv_pc>>

survivorVars == <<survivorArgs, survivorLocals>>

effVars == <<stats, seen, delivered>>

pirVars == <<pir_args, pir_result>>

seasonVars == <<se_args, se_result>>

posVars == <<pos_raw, pos_once, pos_twice, pos_pc>>

readVars == <<eff_values, eff_pc>>

lcwVars ==
    <<lcw_args, lcw_upper, lcw_week, lcw_last, lcw_fetched, lcw_result, lcw_pc>>

jgVars ==
    <<jg_args, jg_hosts, jg_attempts, jg_host, jg_attempt, jg_log, jg_result, jg_pc>>

lgsVars == <<lgs_attempt, lgs_calls, lgs_log, lgs_slept, lgs_result, lgs_pc>>

lockVars == <<lk_file, lk_clock, lk_procs, lk_unlinked>>

httpVars == <<jgVars, lgsVars, lockVars>>

clientVars == <<posVars, readVars, lcwVars, httpVars>>

reportVars == <<effVars, pirVars, seasonVars, clientVars>>

vars == <<scoringVars, survivorVars, reportVars>>

NoValue == [none |-> TRUE]

-----------------------------------------------------------------------------
(* Generic helpers *)

Range(s) == {s[i] : i \in 1..Len(s)}

SetMax(S) == CHOOSE x \in S : \A y \in S : y <= x

SetMin(S) == CHOOSE x \in S : \A y \in S : x <= y

RECURSIVE SumOver(_, _)
\* sum of f[i] over the finite set of indices I
SumOver(f, I) ==
    IF I = {} THEN 0
    ELSE LET i == CHOOSE j \in I : TRUE IN f[i] + SumOver(f, I \ {i})

\* Python round(x, 2) on a value counted in thousandths: the nearest
\* multiple of 10, a tie going to the even hundredth.
Round2(x) ==
    LET q == x \div 10
        r == x % 10
    IN  IF r < 5 THEN q * 10
        ELSE IF r > 5 THEN (q + 1) * 10
        ELSE IF q % 2 = 0 THEN q * 10 ELSE (q + 1) * 10

-----------------------------------------------------------------------------
(* Labels.  A label is an upper-case string; the slash-joined ones are     *)
(* listed with their parts, which is what str.split("/") returns.          *)

SlashLabels == {"RB/WR/TE", "WR/TE", "RB/WR", "D/ST"}

HasSlash(label) == label \in SlashLabels

SplitSlash(label) ==
    CASE label = "RB/WR/TE" -> {"RB", "WR", "TE"}
      [] label = "WR/TE"    -> {"WR", "TE"}
      [] label = "RB/WR"    -> {"RB", "WR"}
      [] label = "D/ST"     -> {"D", "ST"}
      [] OTHER              -> {label}

\* espn_lineup._pos on an upper-case label without spaces
Pos(label) ==
    IF label = "" THEN ""
    ELSE IF label \in {"D/ST", "DST", "D", "DEF", "DST/DEF"} THEN "DST"
    ELSE label

STARTER_EXCLUDES == {"BE", "BN", "BENCH", "IR", "RES", "INJ"}

FLEX_LABELS == {"RB/WR/TE"}

SUPERFLEX_LABELS == {"OP"}

\* the labels scoring._expand_lineup_slots skips
EXPAND_EXCLUDES == {"BE", "BN", "IR", "TAXI"}


-----------------------------------------------------------------------------
(* scoring.py: slot model and exact solver *)

RECURSIVE Repeat(_, _)
\* [slot] * count
Repeat(slot, count) ==
    IF count <= 0 THEN <<>> ELSE <<slot>> \o Repeat(slot, count - 1)

RECURSIVE expand_from(_, _)
\* the loop of _expand_lineup_slots from item i of the dict on
expand_from(counts, i) ==
    IF i > Len(counts) THEN <<>>
    ELSE IF counts[i][1] \in EXPAND_EXCLUDES THEN expand_from(counts, i + 1)
    ELSE Repeat(counts[i][1], counts[i][2]) \o expand_from(counts, i + 1)

RECURSIVE expand_every_label(_, _)
\* an expansion that skips no label
expand_every_label(counts, i) ==
    IF i > Len(counts) THEN <<>>
    ELSE Repeat(counts[i][1], counts[i][2]) \o expand_every_label(counts, i + 1)

expand_lineup_slots_unfiltered(counts) == expand_every_label(counts, 1)

expand_lineup_slots(counts) == expand_from(counts, 1)

\* a _slot_allows that knows the exact label only
slot_allows_exact(slot, eligible_slots) == slot \in eligible_slots

slot_allows(slot, eligible_slots) ==
    IF slot \in eligible_slots THEN TRUE
    ELSE IF HasSlash(slot) THEN SplitSlash(slot) \cap eligible_slots # {}
    ELSE IF slot = "OP" THEN {"QB", "RB", "WR", "TE", "TQB"} \cap eligible_slots # {}
    ELSE IF slot = "ER" THEN {"RB", "WR", "TE"} \cap eligible_slots # {}
    ELSE FALSE

RECURSIVE best(_, _, _, _)
\* _best(slot_idx, used_mask); used is the set of the mask's player indices
best(players, slots, slot_idx, used) ==
    IF slot_idx > Len(slots) THEN 0
    ELSE
        LET skip == best(players, slots, slot_idx + 1, used)
            cands == { players[p].points
                          + best(players, slots, slot_idx + 1, used \cup {p}) :
                       p \in { q \in 1..Len(players) :
                                 /\ q \notin used
                                 /\ slot_allows(slots[slot_idx],
                                                players[q].eligible_slots) } }
        IN  SetMax(cands \cup {skip})

RECURSIVE best_forced(_, _, _, _)
\* a _best that may leave a slot empty only when no player fits it
best_forced(players, slots, slot_idx, used) ==
    IF slot_idx > Len(slots) THEN 0
    ELSE
        LET cands == { players[p].points
                          + best_forced(players, slots, slot_idx + 1, used \cup {p}) :
                       p \in { q \in 1..Len(players) :
                                 /\ q \notin used
                                 /\ slot_allows(slots[slot_idx],
                                                players[q].eligible_slots) } }
        IN  IF cands = {} THEN best_forced(players, slots, slot_idx + 1, used)
            ELSE SetMax(cands)

optimal_lineup_score_forced(players, slots) ==
    IF Len(players) = 0 \/ Len(slots) = 0 THEN 0
    ELSE Round2(best_forced(players, slots, 1, {}))

optimal_lineup_score(players, slots) ==
    IF Len(players) = 0 \/ Len(slots) = 0 THEN 0
    ELSE Round2(best(players, slots, 1, {}))

\* the efficiency column: points / optimal_points as a fraction <<num, den>>
Efficiency(points, optimal) ==
    IF optimal # 0 THEN <<points, optimal>> ELSE <<0, 1>>

\* compute_optimal_points(roster, league_rules, actual_points=...)
compute_optimal_points(players, counts, actual_points) ==
    LET slots == expand_lineup_slots(counts)
    IN  IF Len(slots) = 0 THEN actual_points
        ELSE optimal_lineup_score(players, slots)

\* an add_optimal_points that runs the solver also on an empty slot list
add_optimal_points_solver_only(row, counts) ==
    LET optimal == optimal_lineup_score(row.roster, expand_lineup_slots(counts))
    IN  [points |-> row.points, optimal_points |-> optimal,
         efficiency |-> Efficiency(row.points, optimal)]

\* the row add_optimal_points makes of a base row [points, roster]
add_optimal_points(row, counts) ==
    LET slots == expand_lineup_slots(counts)
    IN  IF Len(slots) = 0
        THEN [points |-> row.points, optimal_points |-> row.points,
              efficiency |-> <<1, 1>>]
        ELSE LET optimal == optimal_lineup_score(row.roster, slots)
             IN  [points |-> row.points, optimal_points |-> optimal,
                  efficiency |-> Efficiency(row.points, optimal)]

-----------------------------------------------------------------------------
(* espn_lineup.py: the lineup-derived slot plan and the greedy fill that   *)
(* fetch_week_scores uses.  A player is an index into the roster.          *)

\* _pos(getattr(player, "position", None) or getattr(player, "slot_position", ""))
PlayerPos(player) ==
    Pos(IF player.position # "" THEN player.position ELSE player.slot)

RECURSIVE fixed_add(_, _)
\* fixed[slot] = fixed.get(slot, 0) + 1 on a dict kept in insertion order
fixed_add(fixed, slot) ==
    IF Len(fixed) = 0 THEN << <<slot, 1>> >>
    ELSE IF fixed[1][1] = slot THEN << <<slot, fixed[1][2] + 1>> >> \o Tail(fixed)
    ELSE <<fixed[1]>> \o fixed_add(Tail(fixed), slot)

RECURSIVE slot_plan_from(_, _, _)
\* the loop of build_slot_plan_from_lineup from player i on
slot_plan_from(players, i, plan) ==
    IF i > Len(players) THEN plan
    ELSE
        LET slot == Pos(players[i].slot)
        IN  IF slot = "" \/ slot \in STARTER_EXCLUDES
            THEN slot_plan_from(players, i + 1, plan)
            ELSE IF slot \in FLEX_LABELS
            THEN slot_plan_from(players, i + 1,
                     [plan EXCEPT !.flex = Append(@, {"RB", "WR", "TE"})])
            ELSE IF slot \in SUPERFLEX_LABELS
            THEN slot_plan_from(players, i + 1,
                     [plan EXCEPT !.flex = Append(@, {"QB", "RB", "WR", "TE"})])
            ELSE slot_plan_from(players, i + 1,
                     [plan EXCEPT !.fixed = fixed_add(@, slot)])

build_slot_plan_from_lineup(players) ==
    slot_plan_from(players, 1, [fixed |-> <<>>, flex |-> <<>>])

\* sum_points_for_slots: the points of the players whose slot is one of the labels
sum_points_for_slots(players, include_labels) ==
    IF include_labels = {} THEN 0
    ELSE SumOver([i \in 1..Len(players) |-> players[i].points],
                 {i \in 1..Len(players) : players[i].slot \in include_labels})

RECURSIVE sort_desc(_, _)
\* candidates.sort(key=points, reverse=True): stable, so among equal points
\* the earlier roster entry comes first
sort_desc(players, cands) ==
    IF cands = {} THEN <<>>
    ELSE
        LET top == CHOOSE p \in cands :
                       \A q \in cands :
                           \/ players[q].points < players[p].points
                           \/ players[q].points = players[p].points /\ p <= q
        IN  <<top>> \o sort_desc(players, cands \ {top})

best_by_position(players, position, used) ==
    sort_desc(players, {p \in 1..Len(players) :
                           p \notin used /\ PlayerPos(players[p]) = position})

eligible_candidates(players, allowed, used) ==
    sort_desc(players, {p \in 1..Len(players) :
                           /\ p \notin used
                           /\ PlayerPos(players[p]) \in {Pos(a) : a \in allowed}})

RECURSIVE take(_, _, _, _)
\* for player, points in candidates[:count]: use the player
take(players, cands, count, acc) ==
    IF count <= 0 \/ Len(cands) = 0 THEN acc
    ELSE take(players, Tail(cands), count - 1,
              [used |-> acc.used \cup {Head(cands)},
               total |-> acc.total + players[Head(cands)].points])

RECURSIVE fill_fixed(_, _, _, _)
\* the loop over fixed.items() of compute_optimal_with_assignment
fill_fixed(players, fixed, i, acc) ==
    IF i > Len(fixed) THEN acc
    ELSE fill_fixed(players, fixed, i + 1,
             take(players, best_by_position(players, fixed[i][1], acc.used),
                  fixed[i][2], acc))

RECURSIVE fill_flex(_, _, _, _)
\* the loop over flex of compute_optimal_with_assignment
fill_flex(players, flex, i, acc) ==
    IF i > Len(flex) THEN acc
    ELSE fill_flex(players, flex, i + 1,
             take(players, eligible_candidates(players, flex[i], acc.used), 1, acc))

\* the total compute_optimal_with_assignment returns
compute_optimal_with_assignment(players, fixed, flex) ==
    fill_flex(players, flex, 1,
        fill_fixed(players, fixed, 1, [used |-> {}, total |-> 0])).total

\* the TeamWeekScore fetch_week_scores builds of one team's roster entries
fetch_week_scores(players) ==
    LET starter_labels == {players[i].slot : i \in 1..Len(players)}
                              \ (STARTER_EXCLUDES \cup {""})
        plan == build_slot_plan_from_lineup(players)
    IN  [points |-> sum_points_for_slots(players, starter_labels),
         bench_points |-> sum_points_for_slots(players, STARTER_EXCLUDES),
         optimal_points |->
             compute_optimal_with_assignment(players, plan.fixed, plan.flex),
         roster |-> players]

-----------------------------------------------------------------------------
(* Inputs of the scoring pipeline *)

MaxRoster == 2

PointValues == {-1000, 10004, 20000}

Player(position, eligible, slot, points) ==
    [position |-> position, eligible_slots |-> eligible, slot |-> slot,
     points |-> points]

\* position, eligible slots and the slot the manager put the player in
Archetypes ==
    { <<"QB", {"QB", "OP"}, "QB">>,
      <<"QB", {"QB", "OP"}, "OP">>,
      <<"RB", {"RB", "RB/WR/TE", "OP"}, "RB">>,
      <<"RB", {"RB", "RB/WR/TE", "OP"}, "RB/WR/TE">>,
      <<"RB", {"RB", "RB/WR/TE", "OP"}, "BE">>,
      <<"WR", {"WR", "WR/TE", "RB/WR/TE", "OP"}, "WR/TE">>,
      <<"RB", {"RB", "WR", "RB/WR/TE", "OP"}, "WR">>,
      <<"DST", {"D/ST"}, "D/ST">>,
      <<"K", {}, "K">> }

PlayerChoices ==
    { Player(a[1], a[2], a[3], pts) : a \in Archetypes, pts \in PointValues }

Rosters == UNION { [1..n -> PlayerChoices] : n \in 0..MaxRoster }

SlotConfigs ==
    { <<>>,
      << <<"BE", 2>>, <<"IR", 1>> >>,
      << <<"QB", 1>>, <<"RB", 1>>, <<"RB/WR/TE", 1>>, <<"BE", 1>> >>,
      << <<"RB/WR/TE", 1>>, <<"OP", 1>>, <<"D/ST", 1>> >>,
      << <<"WR", 1>>, <<"WR/TE", 1>>, <<"K", 1>> >> }

\* the roster and the rules of test_optimal_flex_solver_beats_greedy
TestRoster ==
    << Player("QB", {"QB", "OP"}, "QB", 20000),
       Player("RB", {"RB", "RB/WR/TE", "OP"}, "RB", 25000),
       Player("RB", {"RB", "RB/WR/TE", "OP"}, "RB", 20000),
       Player("RB", {"RB", "RB/WR/TE", "OP"}, "RB", 18000),
       Player("WR", {"WR", "RB/WR/TE", "OP"}, "WR", 19000),
       Player("WR", {"WR", "RB/WR/TE", "OP"}, "WR", 18000),
       Player("WR", {"WR", "RB/WR/TE", "OP"}, "WR", 16000),
       Player("TE", {"TE", "RB/WR/TE", "OP"}, "TE", 30000),
       Player("TE", {"TE", "RB/WR/TE", "OP"}, "TE", 5000) >>

TestSlotCounts ==
    << <<"QB", 1>>, <<"RB", 2>>, <<"WR", 2>>, <<"TE", 1>>, <<"RB/WR/TE", 1>> >>

TestGreedySlots == <<"RB/WR/TE", "QB", "RB", "RB", "WR", "WR", "TE">>

RECURSIVE first_fit(_, _, _)
\* the first of the remaining slots, from i on, that is in the eligible slots; 0 if none
first_fit(remaining, eligible, i) ==
    IF i > Len(remaining) THEN 0
    ELSE IF remaining[i] \in eligible THEN i
    ELSE first_fit(remaining, eligible, i + 1)

RECURSIVE greedy_from(_, _, _, _)
\* the test's greedy loop over the players in descending order of points
greedy_from(players, order, i, remaining) ==
    IF i > Len(order) THEN 0
    ELSE
        LET player == players[order[i]]
            k == first_fit(remaining, player.eligible_slots, 1)
        IN  IF k = 0 THEN greedy_from(players, order, i + 1, remaining)
            ELSE player.points
                   + greedy_from(players, order, i + 1,
                        SubSeq(remaining, 1, k - 1)
                            \o SubSeq(remaining, k + 1, Len(remaining)))

TestGreedy(players, slots) ==
    greedy_from(players, sort_desc(players, 1..Len(players)), 1, slots)

\* the report calls have not been made
EfficiencyIdle == stats = <<>> /\ seen = {} /\ delivered = <<>>

PirIdle == pir_args = NoValue /\ pir_result = NoValue

SeasonIdle == se_args = NoValue /\ se_result = NoValue

PosIdle ==
    pos_raw = NoValue /\ pos_once = <<>> /\ pos_twice = <<>> /\ pos_pc = "idle"

\* no helper of the ESPN client or of main is running
ReadIdle == eff_values = <<>> /\ eff_pc = "idle"

LcwIdle ==
    /\ lcw_args = NoValue /\ lcw_upper = 0 /\ lcw_week = 0 /\ lcw_last = 0
    /\ lcw_fetched = <<>> /\ lcw_result = 0 /\ lcw_pc = "idle"

JsonGetIdle ==
    /\ jg_args = NoValue /\ jg_hosts = <<>> /\ jg_attempts = 0 /\ jg_host = 0
    /\ jg_attempt = 0 /\ jg_log = <<>> /\ jg_result = NoValue /\ jg_pc = "idle"

LeagueGetIdle ==
    /\ lgs_attempt = 0 /\ lgs_calls = <<>> /\ lgs_log = <<>> /\ lgs_slept = <<>>
    /\ lgs_result = NoValue /\ lgs_pc = "idle"

LockIdle ==
    lk_file = NoValue /\ lk_clock = 0 /\ lk_procs = <<>> /\ lk_unlinked = <<>>

HttpIdle == JsonGetIdle /\ LeagueGetIdle /\ LockIdle

ClientIdle == PosIdle /\ ReadIdle /\ LcwIdle /\ HttpIdle

ReportsIdle == EfficiencyIdle /\ PirIdle /\ SeasonIdle /\ ClientIdle

\* run_survivor is not running
SurvivorIdle ==
    /\ df = NoValue /\ teams = <<>> /\ labels = <<>> /\ start_week = 0
    /\ tiebreaks = <<>> /\ weeks_scope = {} /\ last_completed_week = <<>>
    /\ week = 0 /\ week_scores = <<>> /\ seen_teams = {}
    /\ cumulative_eff = <<>> /\ cumulative_points = <<>> /\ alive = <<>>
    /\ eliminated = <<>> /\ eliminations = <<>> /\ summary = <<>>
    /\ sv_pc = "idle"

-----------------------------------------------------------------------------
(* The scoring pipeline of one team-week: main() fetches the week's scores  *)
(* and then scores the frame built of them.                                *)

Init ==
    /\ \/ roster \in Rosters /\ slot_counts \in SlotConfigs
       \/ roster = TestRoster /\ slot_counts = TestSlotCounts
    /\ tws = NoValue
    /\ df_row = NoValue
    /\ pc = "start"
    /\ SurvivorIdle
    /\ ReportsIdle

FetchWeekScores ==
    /\ pc = "start"
    /\ tws' = fetch_week_scores(roster)
    /\ pc' = "fetched"
    /\ UNCHANGED <<roster, slot_counts, df_row, survivorVars, reportVars>>

\* build_base_frame keeps the record's points and roster; add_optimal_points
\* adds the optimal_points and efficiency columns
AddOptimalPoints ==
    /\ pc = "fetched"
    /\ df_row' = add_optimal_points([points |-> tws.points, roster |-> tws.roster],
                                    slot_counts)
    /\ pc' = "scored"
    /\ UNCHANGED <<roster, slot_counts, tws, survivorVars, reportVars>>

Next == FetchWeekScores \/ AddOptimalPoints

Spec == Init /\ [][Next]_vars

-----------------------------------------------------------------------------
(* Claims about the scoring pipeline (checked under Spec) *)

Slots == expand_lineup_slots(slot_counts)

\* the partial one-to-one assignments of players to slots (0: the slot is
\* left empty) in which every assigned player is allowed in the slot
FeasibleAssignments(players, slots) ==
    { f \in [1..Len(slots) -> 0..Len(players)] :
        /\ \A i \in 1..Len(slots) :
               f[i] # 0 => slot_allows(slots[i], players[f[i]].eligible_slots)
        /\ \A i, j \in 1..Len(slots) : (i # j /\ f[i] # 0) => f[i] # f[j] }

AssignmentTotal(players, f) ==
    SumOver([i \in DOMAIN f |-> IF f[i] = 0 THEN 0 ELSE players[f[i]].points],
            DOMAIN f)

MaxAssignmentTotal(players, slots) ==
    SetMax({ AssignmentTotal(players, f) : f \in FeasibleAssignments(players, slots) })

\* the players the actual total counts
Starters == { i \in 1..Len(roster) : roster[i].slot \notin STARTER_EXCLUDES \cup {""} }

\* the actual lineup is a feasible assignment: the starters sit in distinct
\* expanded slots carrying their slot's label, each allowed for its starter
LineupFeasible ==
    \E g \in [Starters -> 1..Len(Slots)] :
        /\ \A i, j \in Starters : i # j => g[i] # g[j]
        /\ \A i \in Starters :
               /\ Slots[g[i]] = roster[i].slot
               /\ slot_allows(Slots[g[i]], roster[i].eligible_slots)

SolverRan == pc = "scored" /\ Len(Slots) > 0

IsTestScenario == roster = TestRoster /\ slot_counts = TestSlotCounts

C1_WitnessTest ==
    SolverRan /\ IsTestScenario /\ df_row.optimal_points = 150000

\* C2: when the actual lineup is a feasible assignment of the league's slots,
\* the row's optimal_points is at least the row's points.
C2_OptimalAtLeastActual ==
    (pc = "scored" /\ LineupFeasible) => df_row.optimal_points >= df_row.points

\* C3: every TeamWeekScore of fetch_week_scores has optimal_points >= points.
C3_FetchedOptimalAtLeastPoints ==
    pc # "start" => tws.optimal_points >= tws.points

-----------------------------------------------------------------------------
(* survivor.py.  An efficiency is a fraction <<num, den>> with den > 0; a   *)
(* display label is a string kept as its sequence of character codes,      *)
(* compared the way Python compares str values.                            *)

RECURSIVE GCD(_, _)
GCD(a, b) == IF b = 0 THEN a ELSE GCD(b, a % b)

Abs(x) == IF x < 0 THEN -x ELSE x

\* num / den in lowest terms
Frac(num, den) ==
    LET g == GCD(Abs(num), den) IN <<num \div g, den \div g>>

FracAdd(a, b) == Frac(a[1] * b[2] + b[1] * a[2], a[2] * b[2])

FracLess(a, b) == a[1] * b[2] < b[1] * a[2]

RECURSIVE FracSum(_)
FracSum(list) ==
    IF Len(list) = 0 THEN <<0, 1>> ELSE FracAdd(Head(list), FracSum(Tail(list)))

RECURSIVE StrLess(_, _)
\* a < b on strings
StrLess(a, b) ==
    IF Len(b) = 0 THEN FALSE
    ELSE IF Len(a) = 0 THEN TRUE
    ELSE IF Head(a) # Head(b) THEN Head(a) < Head(b)
    ELSE StrLess(Tail(a), Tail(b))

RECURSIVE Digits(_)
\* str(n) for n >= 0
Digits(n) ==
    IF n < 10 THEN <<48 + n>> ELSE Digits(n \div 10) \o <<48 + (n % 10)>>

\* espn_client.label_for: the label of the map, or "Team <id>"
label_for(team_id, label_map) ==
    IF team_id \in DOMAIN label_map /\ label_map[team_id] # <<>>
    THEN label_map[team_id]
    ELSE <<84, 101, 97, 109, 32>> \o Digits(team_id)

TeamSet == Range(teams)

owner_map == [team \in TeamSet |-> label_for(team, labels)]

\* rule_map of _resolve_tiebreak: rule -> <<key, ascending>>
rule_map ==
    [lower_season_eff    |-> <<"season_efficiency", TRUE>>,
     higher_season_eff   |-> <<"season_efficiency", FALSE>>,
     lower_total_points  |-> <<"total_points", TRUE>>,
     higher_total_points |-> <<"total_points", FALSE>>,
     alphabetical        |-> <<"alphabetical", TRUE>>]

RECURSIVE build_ordering(_, _)
\* the rules of the list that rule_map knows, in list order
build_ordering(rules, i) ==
    IF i > Len(rules) THEN <<>>
    ELSE IF rules[i] \in DOMAIN rule_map
    THEN <<rule_map[rules[i]]>> \o build_ordering(rules, i + 1)
    ELSE build_ordering(rules, i + 1)

\* the value of a team under a key
metric_value(key, team, owners, cumulative) ==
    IF key = "alphabetical" THEN owners[team]
    ELSE IF key = "season_efficiency" THEN cumulative.season_efficiency[team]
    ELSE cumulative.total_points[team]

metric_less(key, a, b) ==
    IF key = "alphabetical" THEN StrLess(a, b)
    ELSE IF key = "season_efficiency" THEN FracLess(a, b)
    ELSE a < b

\* a round that always keeps the smallest value, whatever the rule's direction
keep_best_ascending(remaining, key, asc, owners, cumulative) ==
    LET value(t) == metric_value(key, t, owners, cumulative)
        is_best(t) == \A i \in 1..Len(remaining) :
                          ~metric_less(key, value(remaining[i]), value(t))
    IN  SelectSeq(remaining, is_best)

\* one round of the loop: the members of remaining with the best value
keep_best(remaining, key, asc, owners, cumulative) ==
    LET value(t) == metric_value(key, t, owners, cumulative)
        worse(a, b) == IF asc THEN metric_less(key, b, a) ELSE metric_less(key, a, b)
        is_best(t) == \A i \in 1..Len(remaining) : ~worse(value(t), value(remaining[i]))
    IN  SelectSeq(remaining, is_best)

\* the last of the least labels, as an unstable or reversed sort gives it
last_by_label(remaining, owners) ==
    LET lasts == { i \in 1..Len(remaining) :
                     \A j \in 1..Len(remaining) :
                         /\ ~StrLess(owners[remaining[j]], owners[remaining[i]])
                         /\ (j > i => StrLess(owners[remaining[i]], owners[remaining[j]])) }
    IN  remaining[CHOOSE i \in lasts : TRUE]

\* sorted(remaining, key=owner)[0]: stable, so the first of the least labels
first_by_label(remaining, owners) ==
    LET firsts == { i \in 1..Len(remaining) :
                      \A j \in 1..Len(remaining) :
                          /\ ~StrLess(owners[remaining[j]], owners[remaining[i]])
                          /\ (j < i => StrLess(owners[remaining[j]], owners[remaining[i]])
                                        \/ StrLess(owners[remaining[i]], owners[remaining[j]])) }
    IN  remaining[CHOOSE i \in firsts : TRUE]

RECURSIVE apply_ordering(_, _, _, _, _)
\* the loop over ordering, from rule i on
apply_ordering(remaining, ordering, i, owners, cumulative) ==
    IF i > Len(ordering) THEN first_by_label(remaining, owners)
    ELSE
        LET kept == keep_best(remaining, ordering[i][1], ordering[i][2],
                              owners, cumulative)
        IN  IF Len(kept) = 1 THEN kept[1]
            ELSE apply_ordering(kept, ordering, i + 1, owners, cumulative)

resolve_tiebreak(candidates, rules, owners, cumulative) ==
    IF Len(candidates) = 1 THEN candidates[1]
    ELSE
        LET known == build_ordering(rules, 1)
            ordering == IF Len(known) = 0 THEN << <<"alphabetical", TRUE>> >> ELSE known
        IN  apply_ordering(candidates, ordering, 1, owners, cumulative)

-----------------------------------------------------------------------------
(* run_survivor.  The table df is a record: team_ids and weeks are the     *)
(* values of its team_id and week columns; a fixed table gives its rows    *)
(* week by week, the other tables have their rows read as the loop reaches  *)
(* each week.  A row is [points, optimal_points, efficiency]; week_scores   *)
(* maps every team to its row of the week, or to NoValue when it has none.  *)

RECURSIVE sorted(_)
sorted(S) == IF S = {} THEN <<>> ELSE <<SetMin(S)>> \o sorted(S \ {SetMin(S)})

\* weeks (lines 66-69): the scope when it is not empty (None is the empty
\* scope), else the table's weeks
weeks_of(scope, table) == IF scope # {} THEN scope ELSE table.weeks

\* an optional integer: None, or the integer in a one-element list
None == <<>>

Some(x) == <<x>>

\* last_week (line 88)
last_week_of(lcw, weeks) == IF lcw # None THEN lcw[1] ELSE SetMax(weeks)

\* a range that stops before last_week
in_range_exclusive(w, last) == w < last

\* range(first_week, last_week + 1) still has the value w
in_range(w, last) == w <= last

\* week_scores.get(team, 0.0)
score_of(scores, team) ==
    IF scores[team] # NoValue THEN scores[team].points ELSE 0

\* lines 102-106: cumulative_points[team] += score
add_week_points(totals, scores) ==
    [team \in DOMAIN totals |-> totals[team] + score_of(scores, team)]

\* lines 104-110: the efficiency sample a team gets this week, if any
week_sample(scores, team) ==
    LET row == scores[team]
        opt == IF row # NoValue THEN row.optimal_points ELSE 0
        eff == IF row # NoValue THEN row.efficiency ELSE <<0, 1>>
    IN  IF opt > 0 THEN <<Frac(score_of(scores, team), opt)>>
        ELSE IF eff[1] # 0 THEN <<Frac(eff[1], eff[2])>>
        ELSE <<>>

add_week_effs(samples, scores) ==
    [team \in DOMAIN samples |-> samples[team] \o week_sample(scores, team)]

\* the guard that lets a single alive team be eliminated
skip_when_empty(w, start, live) == w < start \/ Len(live) < 1

\* the guard without its test on the number of teams alive
skip_before_start(w, start, live) == w < start

\* line 112: the week eliminates nobody
skip_elimination(w, start, live) == w < start \/ Len(live) <= 1

\* reads a team without a row as if it had the week's best score
alive_scores_ignoring_missing(live, scores) ==
    LET present == {scores[t].points : t \in {u \in Range(live) : scores[u] # NoValue}}
    IN  [team \in Range(live) |->
            IF scores[team] # NoValue THEN scores[team].points
            ELSE IF present = {} THEN 0 ELSE SetMax(present)]

\* line 115
alive_scores_of(live, scores) ==
    [team \in Range(live) |-> score_of(scores, team)]

\* never skips
never_skip(live, scores) == FALSE

\* skips as soon as one alive team has no row
some_alive_missing(live, scores) ==
    \E i \in 1..Len(live) : scores[live[i]] = NoValue

\* line 116: no alive team has a row this week
no_alive_scores(live, scores) ==
    ~ \E i \in 1..Len(live) : scores[live[i]] # NoValue

\* lines 119-120
low_teams_of(live, ascores) ==
    LET min_score == SetMin({ascores[t] : t \in Range(live)})
        is_low(t) == ascores[t] = min_score
    IN  SelectSeq(live, is_low)

\* lines 122-128
cumulative_metrics_of(samples, totals) ==
    [season_efficiency |->
        [team \in DOMAIN samples |->
            IF Len(samples[team]) > 0
            THEN LET total == FracSum(samples[team])
                 IN  Frac(total[1], total[2] * Len(samples[team]))
            ELSE <<0, 1>>],
     total_points |-> totals]

\* leaves the list as it was
remove_nothing(live, loser) == live

\* alive.remove(loser)
remove(live, loser) ==
    LET keep(t) == t # loser IN SelectSeq(live, keep)

-----------------------------------------------------------------------------
(* Inputs of run_survivor *)

NumTeams == 2

MaxWeek == 2

\* a row of the table, with the efficiency add_optimal_points gives it
RowOf(points, optimal) ==
    [points |-> points, optimal_points |-> optimal,
     efficiency |-> IF optimal > 0 THEN Frac(points, optimal) ELSE <<0, 1>>]

PlainRows == {RowOf(0, 100000), RowOf(90000, 100000)}

\* a negative score of a lineup whose optimal score is 0
OddRows == {RowOf(-10000, 0), RowOf(90000, 100000)}

DrawnTable(ids, table_weeks, choices) ==
    [kind |-> "drawn", team_ids |-> ids, weeks |-> table_weeks,
     choices |-> choices, rows |-> <<>>]

FixedTable(ids, rows) ==
    [kind |-> "fixed", team_ids |-> ids, weeks |-> DOMAIN rows,
     choices |-> {}, rows |-> rows]

Input(table, start, rules, scope, lcw, label_map) ==
    [df |-> table, start_week |-> start, tiebreaks |-> rules,
     weeks_scope |-> scope, last_completed_week |-> lcw, labels |-> label_map]

DefaultChain == <<"lower_season_eff", "lower_total_points", "alphabetical">>

Chains ==
    { <<>>, DefaultChain, <<"lower_total_points", "lower_season_eff">>,
      <<"higher_total_points">>, <<"higher_season_eff", "alphabetical">>,
      <<"higher_median", "alphabetical">> }

NoLabels == <<>>

\* labels in the reverse of the order of the team ids
ReversedLabels(n) == [team \in 1..n |-> <<65 + n - team>>]

SameLabels(n) == [team \in 1..n |-> <<65>>]

\* team 1 has an empty label, the others are "Z"
PartialLabels(n) == [team \in 1..n |-> IF team = 1 THEN <<>> ELSE <<90>>]

FullTable == DrawnTable(1..NumTeams, 1..MaxWeek, PlainRows)

\* ties of the week's lowest score under each chain and labelling
TieInputs ==
    { Input(FullTable, 2, c, {}, None, l) :
        <<c, l>> \in (Chains \X {NoLabels, ReversedLabels(NumTeams)})
                     \cup ({<<>>} \X {SameLabels(NumTeams), PartialLabels(NumTeams)}) }

\* the other arguments: team counts, start weeks, scopes, last completed weeks
ShapeInputs ==
    { Input(DrawnTable(1..n, IF n = 0 THEN {} ELSE 1..MaxWeek, PlainRows),
            start, <<>>, {}, None, NoLabels) :
        <<n, start>> \in (0..NumTeams) \X {1, 3} }
    \cup { Input(FullTable, 1, <<>>, {}, Some(lcw), NoLabels) :
             lcw \in {0, MaxWeek - 1, MaxWeek, MaxWeek + 1} }
    \cup { Input(DrawnTable(1..NumTeams, 1..(MaxWeek + 1), PlainRows), 1,
                 DefaultChain, {1, MaxWeek + 1}, None, NoLabels),
           Input(DrawnTable(1..NumTeams, {MaxWeek}, PlainRows), 1,
                 DefaultChain, 1..MaxWeek, None, NoLabels),
           Input(DrawnTable(1..NumTeams, {1}, PlainRows), 2,
                 DefaultChain, 1..(MaxWeek + 1), Some(MaxWeek + 1), NoLabels),
           Input(DrawnTable({}, {}, PlainRows), 1, <<>>, 1..MaxWeek, None, NoLabels),
           Input(DrawnTable(1..NumTeams, 1..MaxWeek, OddRows), 1,
                 DefaultChain, {}, None, NoLabels) }

\* the tables of tests/test_sidepots.py and tests/test_survivor_inclusive.py
TieRows ==
    [w \in 1..3 |->
       [team \in 1..3 |->
          IF w = 1 THEN RowOf(<<120000, 130000, 110000>>[team], 150000)
          ELSE IF w = 2 THEN RowOf(90000, 150000)
          ELSE IF team = 3 THEN NoValue
          ELSE RowOf(<<80000, 70000>>[team], 150000)]]

OwnerLabels ==
    << <<65, 108, 112, 104, 97>>, <<66, 114, 97, 118, 111>>,
       <<67, 104, 97, 114, 108, 105, 101>> >>

TestTieInput ==
    Input(FixedTable(1..3, TieRows), 2, DefaultChain, {1, 2, 3}, None, OwnerLabels)

MissingRows ==
    [w \in 1..2 |->
       [team \in 1..2 |->
          IF w = 1 THEN RowOf(<<100000, 90000>>[team], 150000)
          ELSE IF team = 1 THEN NoValue
          ELSE RowOf(80000, 150000)]]

TestMissingInput ==
    Input(FixedTable(1..2, MissingRows), 2, <<"lower_total_points", "alphabetical">>,
          {1, 2}, None, SubSeq(OwnerLabels, 1, 2))

InclusiveRows ==
    [w \in 1..8 |->
       [team \in 1..7 |->
          IF w >= 3 /\ team = 10 - w THEN RowOf((40 + w) * 1000, 150000)
          ELSE RowOf((100 + team) * 1000, 150000)]]

TestInclusiveInput ==
    Input(FixedTable(1..7, InclusiveRows), 3, DefaultChain, 1..8, Some(8),
          [team \in 1..7 |-> <<84, 101, 97, 109, 32, 48 + team>>])

SurvivorInputs ==
    TieInputs \cup ShapeInputs
    \cup {TestTieInput, TestMissingInput, TestInclusiveInput}

-----------------------------------------------------------------------------
(* The run of run_survivor: the call, one step per value of the loop       *)
(* variable, the return.                                                    *)

ScoringIdle ==
    /\ roster = <<>> /\ slot_counts = <<>> /\ tws = NoValue /\ df_row = NoValue
    /\ pc = "idle"

InitSurvivor ==
    /\ \E input \in SurvivorInputs :
          /\ df = input.df
          /\ labels = input.labels
          /\ start_week = input.start_week
          /\ tiebreaks = input.tiebreaks
          /\ weeks_scope = input.weeks_scope
          /\ last_completed_week = input.last_completed_week
    /\ teams = <<>> /\ week = 0 /\ week_scores = <<>> /\ seen_teams = {}
    /\ cumulative_eff = <<>> /\ cumulative_points = <<>> /\ alive = <<>>
    /\ eliminated = <<>> /\ eliminations = <<>> /\ summary = <<>>
    /\ sv_pc = "start"
    /\ ScoringIdle
    /\ ReportsIdle

weeks_set == weeks_of(weeks_scope, df)

last_week == last_week_of(last_completed_week, weeks_set)

\* the weeks the loop reads rows of
weeks_read ==
    IF weeks_set = {} THEN {}
    ELSE {w \in weeks_set : SetMin(weeks_set) <= w /\ in_range(w, last_week)}

\* df[df["week"] == w], as the rows of all the teams.  A week of the table
\* has a row; a team of the table has a row in one of the table's weeks.
week_rows_of(table, w) ==
    IF table.kind = "fixed"
    THEN {IF w \in table.weeks THEN table.rows[w]
          ELSE [team \in table.team_ids |-> NoValue]}
    ELSE { rows \in [table.team_ids -> table.choices \cup {NoValue}] :
             /\ w \notin table.weeks => \A t \in table.team_ids : rows[t] = NoValue
             /\ w \in table.weeks => \E t \in table.team_ids : rows[t] # NoValue
             /\ (w \in table.weeks /\ table.weeks \subseteq weeks_read
                   /\ w = SetMax(table.weeks))
                   => \A t \in table.team_ids \ seen_teams : rows[t] # NoValue }

\* lines 66-92
Enter ==
    /\ sv_pc = "start"
    /\ teams' = sorted(df.team_ids)
    /\ cumulative_eff' = [team \in df.team_ids |-> <<>>]
    /\ cumulative_points' = [team \in df.team_ids |-> 0]
    /\ alive' = sorted(df.team_ids)
    /\ eliminated' = <<>> /\ eliminations' = <<>> /\ summary' = <<>>
    /\ IF weeks_set = {} \/ last_week < SetMin(weeks_set)
       THEN sv_pc' = "returned" /\ week' = week
       ELSE sv_pc' = "loop" /\ week' = SetMin(weeks_set)
    /\ UNCHANGED <<survivorArgs, week_scores, seen_teams, scoringVars, reportVars>>

\* lines 94-145: the body of the loop for the value week
WeekIteration ==
    /\ sv_pc = "loop"
    /\ in_range(week, last_week)
    /\ week' = week + 1
    /\ IF week \notin weeks_set
       THEN UNCHANGED <<week_scores, seen_teams, cumulative_eff, cumulative_points,
                        alive, eliminated, eliminations, summary>>
       ELSE \E rows \in week_rows_of(df, week) :
              LET totals == add_week_points(cumulative_points, rows)
                  samples == add_week_effs(cumulative_eff, rows)
                  scores == alive_scores_of(alive, rows)
                  loser == resolve_tiebreak(low_teams_of(alive, scores), tiebreaks,
                                            owner_map,
                                            cumulative_metrics_of(samples, totals))
                  eliminated_points == scores[loser]
              IN  /\ week_scores' = rows
                  /\ seen_teams' = seen_teams \cup {t \in TeamSet : rows[t] # NoValue}
                  /\ cumulative_points' = totals
                  /\ cumulative_eff' = samples
                  /\ IF skip_elimination(week, start_week, alive)
                        \/ no_alive_scores(alive, rows)
                     THEN UNCHANGED <<alive, eliminated, eliminations, summary>>
                     ELSE /\ alive' = remove(alive, loser)
                          /\ eliminations' =
                                Append(eliminations, <<week, loser, eliminated_points>>)
                          /\ eliminated' =
                                Append(eliminated,
                                       [week |-> week, team_id |-> loser,
                                        owner |-> owner_map[loser],
                                        points |-> eliminated_points])
                          /\ summary' =
                                Append(summary,
                                       [week |-> week,
                                        label |-> label_for(loser, labels),
                                        points |-> Round2(eliminated_points)])
    /\ UNCHANGED <<survivorArgs, teams, sv_pc, scoringVars, reportVars>>

\* lines 147-152
Return ==
    /\ sv_pc = "loop"
    /\ ~in_range(week, last_week)
    /\ sv_pc' = "returned"
    /\ UNCHANGED <<survivorArgs, teams, week, week_scores, seen_teams, cumulative_eff,
                   cumulative_points, alive, eliminated, eliminations, summary,
                   scoringVars, reportVars>>

NextSurvivor == Enter \/ WeekIteration \/ Return

SpecSurvivor == InitSurvivor /\ [][NextSurvivor]_vars

\* the interpreter keeps running the call until it returns
FairSpecSurvivor == SpecSurvivor /\ WF_vars(NextSurvivor)

-----------------------------------------------------------------------------
(* Properties of run_survivor, under SpecSurvivor *)

\* a step of the loop; week is the value the step handles
WeekStep == sv_pc = "loop" /\ sv_pc' = "loop" /\ week' = week + 1

\* a step for a week of the scope, at or after start_week
ProcessedWeekStep == WeekStep /\ week \in weeks_set /\ week >= start_week

\* the week's score of a team in the rows the step read
PointsThisWeek(team) ==
    IF week_scores'[team] = NoValue THEN 0 ELSE week_scores'[team].points

AliveWithRow == {t \in Range(alive) : week_scores'[t] # NoValue}

AliveWithoutRow == {t \in Range(alive) : week_scores'[t] = NoValue}

Eliminates == Len(eliminations') = Len(eliminations) + 1

NoElimination ==
    /\ alive' = alive
    /\ eliminations' = eliminations
    /\ eliminated' = eliminated

LastEvent == eliminations[Len(eliminations)]

NewEvent == eliminations'[Len(eliminations')]

EventWeeks == {eliminations[i][1] : i \in 1..Len(eliminations)}

C4_EventsInOrder ==
    /\ \A i \in 1..Len(eliminations) : eliminations[i][1] >= start_week
    /\ \A i, j \in 1..Len(eliminations) :
          i < j => eliminations[i][1] < eliminations[j][1]

C4_OneEventPerWeek ==
    WeekStep =>
        /\ \/ eliminations' = eliminations
           \/ eliminations' = Append(eliminations, NewEvent) /\ NewEvent[1] = week
        /\ Len(alive) <= 1 => NoElimination

\* C4: every week of the loop adds at most one elimination event, and the
\* event is for that week; no event has a week before start_week; a week
\* entered with one or zero teams alive eliminates nobody; the weeks of the
\* events are strictly increasing in the order of the list.
C4_AtMostOnePerWeek == [](C4_EventsInOrder) /\ [][C4_OneEventPerWeek]_vars

\* the run returned after a week that was entered with a single alive team
\* which had a row, and that week eliminated nobody
C4_Witness ==
    /\ sv_pc = "returned"
    /\ Len(eliminations) = 1
    /\ LastEvent[1] < week - 1
    /\ week - 1 \in weeks_set
    /\ Len(alive) = 1
    /\ week_scores[alive[1]] # NoValue

\* a run with several events
C4_WitnessEvents == sv_pc = "returned" /\ Len(eliminations) >= 2

\* the alive teams at the week's lowest score
TiedAtMinimum ==
    {t \in Range(alive) :
        \A u \in Range(alive) : PointsThisWeek(t) <= PointsThisWeek(u)}

\* the cumulative metrics through the week of the step
SeasonEfficiency(team) ==
    cumulative_metrics_of(cumulative_eff', cumulative_points').season_efficiency[team]

TotalPoints(team) == cumulative_points'[team]

\* the candidates of S a rule keeps: those with the extreme value of its metric
KeptBy(rule, S) ==
    IF rule = "lower_season_eff"
    THEN {t \in S : \A u \in S : ~FracLess(SeasonEfficiency(u), SeasonEfficiency(t))}
    ELSE IF rule = "higher_season_eff"
    THEN {t \in S : \A u \in S : ~FracLess(SeasonEfficiency(t), SeasonEfficiency(u))}
    ELSE IF rule = "lower_total_points"
    THEN {t \in S : \A u \in S : TotalPoints(t) <= TotalPoints(u)}
    ELSE IF rule = "higher_total_points"
    THEN {t \in S : \A u \in S : TotalPoints(t) >= TotalPoints(u)}
    ELSE IF rule = "alphabetical"
    THEN {t \in S : \A u \in S : ~StrLess(owner_map[u], owner_map[t])}
    ELSE S

RECURSIVE AfterRules(_, _)
\* the candidates left by the rules from the i-th on, stopping at one candidate
AfterRules(S, i) ==
    IF i > Len(tiebreaks) \/ Cardinality(S) = 1 THEN S
    ELSE AfterRules(KeptBy(tiebreaks[i], S), i + 1)

C5_LoserIsChainChoice ==
    (WeekStep /\ Eliminates) =>
        LET loser == NewEvent[2]
            left == AfterRules(TiedAtMinimum, 1)
        IN  /\ loser \in Range(alive)
            /\ loser \in TiedAtMinimum
            /\ loser \in left
            /\ \A u \in left : ~StrLess(owner_map[u], owner_map[loser])
            /\ (tiebreaks = DefaultChain /\ Cardinality(TiedAtMinimum) = 3)
                  => \A u \in TiedAtMinimum :
                        ~FracLess(SeasonEfficiency(u), SeasonEfficiency(loser))

\* C5: the team a week eliminates is alive, its score of the week is the
\* lowest among the alive teams, and among the teams tied at that score it is
\* the one the configured rules leave when applied in list order, each rule
\* keeping the candidates with the extreme value of its metric through that
\* week and the chain stopping at one candidate; a tie left by the rules goes
\* to the least display label.  With the chain lower_season_eff,
\* lower_total_points, alphabetical and three tied teams, no tied team has a
\* lower season efficiency than the eliminated one.
C5_TieBreakChain == [][C5_LoserIsChainChoice]_vars

\* the three teams of the test all scored 90 in week 2 and team 3, whose
\* season efficiency is the lowest, was eliminated
C5_Witness ==
    /\ tiebreaks = DefaultChain
    /\ Len(teams) = 3
    /\ week = 3
    /\ \A t \in TeamSet : week_scores[t] # NoValue /\ week_scores[t].points = 90000
    /\ eliminations = << <<2, 3, 90000>> >>
    /\ \A t \in {1, 2} :
          FracLess(cumulative_metrics_of(cumulative_eff, cumulative_points).season_efficiency[3],
                   cumulative_metrics_of(cumulative_eff, cumulative_points).season_efficiency[t])

\* a tie that a higher_* rule decided
C5_WitnessHigher ==
    /\ tiebreaks = <<"higher_total_points">>
    /\ Len(eliminations) = 1
    /\ \A t \in TeamSet : week_scores[t] # NoValue /\ week_scores[t].points = LastEvent[3]
    /\ \A t \in Range(alive) : cumulative_points[t] < cumulative_points[LastEvent[2]]

C6_LastWeekEliminates ==
    (/\ WeekStep
     /\ last_completed_week = Some(week)
     /\ week >= start_week
     /\ week \in weeks_set
     /\ AliveWithRow # {}
     /\ Len(alive) > 1)
        => Eliminates /\ NewEvent[1] = week

C6_LoopReachesLastWeek ==
    /\ (/\ sv_pc = "returned"
        /\ last_completed_week # None
        /\ weeks_set # {}
        /\ last_week >= SetMin(weeks_set))
          => week = last_week + 1
    /\ (/\ sv_pc = "returned"
        /\ last_completed_week = Some(8)
        /\ start_week = 3)
          => 8 \in EventWeeks

\* C6: when last_completed_week is a week L of the scope, at or after
\* start_week, the loop handles week L itself: entered with more than one
\* team alive and a row for one of them, week L adds an elimination event for
\* week L, and the run returns only after the loop variable has passed L.
\* With last_completed_week 8 and start_week 3 there is an event for week 8.
C6_LastCompletedWeekInclusive ==
    [](C6_LoopReachesLastWeek) /\ [][C6_LastWeekEliminates]_vars

\* the run of the test returned with its week 8 elimination of team 2
C6_Witness ==
    /\ sv_pc = "returned"
    /\ last_completed_week = Some(8)
    /\ start_week = 3
    /\ LastEvent[1] = 8
    /\ LastEvent[2] = 2

C7_SkippedOnAnyMissingRow ==
    (ProcessedWeekStep /\ AliveWithoutRow # {}) => NoElimination

\* The statement of C7 as written: a week of the scope, at or after
\* start_week, in which an alive team has no row eliminates nobody, whether
\* or not other alive teams have rows.
C7_NoEliminationWhenAnyRowMissing == [][C7_SkippedOnAnyMissingRow]_vars

C7_SkippedOnlyWhenAllMissing ==
    (ProcessedWeekStep /\ AliveWithoutRow # {} /\ Len(alive) > 1) =>
        IF AliveWithRow = {} THEN NoElimination
        ELSE /\ Eliminates
             /\ Len(alive') = Len(alive) - 1
             /\ NewEvent[1] = week

\* C7: in a week of the scope, at or after start_week, entered with more than
\* one team alive of which one has no row, nobody is eliminated exactly when
\* no alive team has a row; when another alive team has a row the week
\* eliminates one team.
C7_EliminationUnlessAllRowsMissing == [][C7_SkippedOnlyWhenAllMissing]_vars

\* the week eliminated a team that had a row although a team still alive
\* had none
C7_Witness ==
    /\ sv_pc = "loop"
    /\ Len(eliminations) >= 1
    /\ LastEvent[1] = week - 1
    /\ week_scores[LastEvent[2]] # NoValue
    /\ \E t \in Range(alive) : week_scores[t] = NoValue

C8_MissingRowScoresZero ==
    (/\ ProcessedWeekStep
     /\ Len(alive) > 1
     /\ AliveWithoutRow # {}
     /\ AliveWithRow # {})
        => /\ Eliminates
           /\ NewEvent[1] = week
           /\ NewEvent[2] \in TiedAtMinimum
           /\ NewEvent[3] = PointsThisWeek(NewEvent[2])
           /\ eliminated'[Len(eliminated')].points = NewEvent[3]
           /\ (\A t \in AliveWithRow : week_scores'[t].points >= 0)
                 => /\ NewEvent[3] = 0
                    /\ (\A t \in AliveWithRow : week_scores'[t].points > 0)
                          => NewEvent[2] \in AliveWithoutRow
           /\ (\E t \in AliveWithRow : week_scores'[t].points < 0)
                 => NewEvent[2] \in AliveWithRow

\* C8: in a week of the scope, at or after start_week, an alive team without
\* a row counts with the score 0 when another alive team has a row: the week
\* eliminates a team at the lowest of these scores; when no row is below 0
\* the recorded points are 0, and the eliminated team is one without a row
\* unless a row ties it at 0; when a row is below 0 a team with a row goes.
C8_MissingTeamScoredZero == [][C8_MissingRowScoresZero]_vars

\* the week eliminated, with 0 points, a team that had no row while the
\* team still alive had one
C8_Witness ==
    /\ sv_pc = "loop"
    /\ Len(eliminations) >= 1
    /\ LastEvent[1] = week - 1
    /\ LastEvent[3] = 0
    /\ week_scores[LastEvent[2]] = NoValue
    /\ \E t \in Range(alive) : week_scores[t] # NoValue

C9_WeekWithoutRowsSkipped ==
    (/\ sv_pc = "loop"
     /\ week' = week + 1
     /\ week \in weeks_set
     /\ week >= start_week
     /\ Len(alive) > 1
     /\ AliveWithRow = {})
        => /\ alive' = alive
           /\ eliminations' = eliminations
           /\ eliminated' = eliminated
           /\ summary' = summary
           /\ sv_pc' = "loop"

\* C9: a week of the scope, at or after start_week, entered with more than
\* one team alive and in which no alive team has a row leaves alive,
\* eliminations, eliminated_order and summary as they were, and the loop goes
\* on to the next week.
C9_SkipKeepsHistory == [][C9_WeekWithoutRowsSkipped]_vars

\* week 1 of the scope had no rows and eliminated nobody; the next week
\* eliminated a team
C9_Witness ==
    /\ start_week = 1
    /\ weeks_set = 1..MaxWeek
    /\ df.weeks = {MaxWeek}
    /\ Len(teams) > 1
    /\ Len(eliminations) = 1
    /\ LastEvent[1] = MaxWeek

EliminatedTeams == {eliminated[i].team_id : i \in 1..Len(eliminated)}

C10_Partition ==
    sv_pc \in {"loop", "returned"} =>
        /\ Range(alive) \cap EliminatedTeams = {}
        /\ Range(alive) \cup EliminatedTeams = df.team_ids
        /\ \A i, j \in 1..Len(eliminated) :
              eliminated[i].team_id = eliminated[j].team_id => i = j
        /\ \A i, j \in 1..Len(alive) : alive[i] = alive[j] => i = j

C10_AliveShrinks ==
    sv_pc \in {"loop", "returned"} => Range(alive') \subseteq Range(alive)

\* C10: once the run has its alive list, the alive teams and the teams of
\* eliminated_order are disjoint and together are the team ids of the
\* table, no team is twice in eliminated_order, and no step adds a team to
\* alive.
C10_AliveAndEliminatedPartition == [](C10_Partition) /\ [][C10_AliveShrinks]_vars

\* two teams were eliminated and one is still alive
C10_Witness ==
    /\ sv_pc = "loop"
    /\ Len(eliminated) = 2
    /\ Len(alive) >= 1
    /\ Len(teams) = Len(alive) + 2

C11_OneTeamStays ==
    /\ (sv_pc \in {"loop", "returned"} /\ Len(teams) >= 1) =>
          /\ Len(alive) >= 1
          /\ Len(eliminations) <= Len(teams) - 1
    /\ sv_pc = "loop" => week <= last_week + 1
    /\ sv_pc # "returned" => ENABLED NextSurvivor

C11_LastTeamKept ==
    /\ (sv_pc = "loop" /\ Len(alive) = 1) =>
          /\ NoElimination
          /\ summary' = summary
    /\ sv_pc = "loop" => sv_pc' = "returned" \/ week' = week + 1

\* C11: with at least one team in the table alive is never empty: from the
\* moment one team is alive every further week leaves alive and the history
\* as they were, so there are at most (number of teams - 1) eliminations.
\* The call returns, also when weeks of the scope are left: while it has not
\* returned it can take a step, and every step of the loop either returns or
\* moves the loop variable one week closer to the end of its range.
C11_NeverEmptiesAlive == [](C11_OneTeamStays) /\ [][C11_LastTeamKept]_vars

\* under fair scheduling of the call's steps the call returns
C11_Returns == <>(sv_pc = "returned")

\* the run returned with one team alive, all the others eliminated before
\* the last week of the scope
C11_Witness ==
    /\ sv_pc = "returned"
    /\ Len(teams) >= 2
    /\ Len(alive) = 1
    /\ Len(eliminations) = Len(teams) - 1
    /\ \E w \in weeks_set : LastEvent[1] < w /\ w <= last_week

\* the one team the inputs of the week single out: of the teams the rules
\* leave, the one with the least label and, among equal labels, the least id
DeterminedLosers ==
    LET left == AfterRules(TiedAtMinimum, 1)
    IN  {t \in left :
            \A u \in left :
                /\ ~StrLess(owner_map[u], owner_map[t])
                /\ owner_map[u] = owner_map[t] => t <= u}

C12_ResultIsFunctionOfInput ==
    WeekStep =>
        IF \/ week \notin weeks_set
           \/ week < start_week
           \/ Len(alive) <= 1
           \/ AliveWithRow = {}
        THEN alive' = alive /\ eliminated' = eliminated
        ELSE /\ Cardinality(DeterminedLosers) = 1
             /\ \A t \in DeterminedLosers :
                   /\ alive' = SelectSeq(alive, LAMBDA u : u # t)
                   /\ eliminated' =
                         Append(eliminated,
                                [week |-> week, team_id |-> t,
                                 owner |-> label_for(t, labels),
                                 points |-> PointsThisWeek(t)])

C12_AliveInIdOrder ==
    \A i, j \in 1..Len(alive) : i < j => alive[i] < alive[j]

\* C12: alive and eliminated_order after a week are a function of the
\* arguments and of the rows read so far, so two runs on the same input give
\* the same lists: alive is kept in ascending team id, and the team a week
\* eliminates is the single team the rules leave with the least label and,
\* when metrics and labels are all equal, the least team id.
C12_Deterministic == [](C12_AliveInIdOrder) /\ [][C12_ResultIsFunctionOfInput]_vars

\* all teams have the same label, the same rows in every week and so the
\* same cumulative metrics; team 1 was eliminated
C12_Witness ==
    /\ Len(teams) >= 2
    /\ labels = SameLabels(Len(teams))
    /\ Len(eliminations) = 1
    /\ LastEvent[2] = 1
    /\ LastEvent[1] = week - 1
    /\ \A t \in TeamSet :
          /\ week_scores[t] = week_scores[1]
          /\ cumulative_points[t] = cumulative_points[1]
          /\ cumulative_eff[t] = cumulative_eff[1]

-----------------------------------------------------------------------------
(* update_efficiency and EffStat of efficiency.py, which main.py and the    *)
(* tests import: the accumulation of the weekly records under the dedupe   *)
(* set of (team_id, week) pairs.                                            *)

\* the accumulator of a team before its first record
EffStat(team_id) ==
    [team_id |-> team_id, actual_sum |-> 0, optimal_sum |-> 0, weeks |-> 0]

\* the record added to its team's accumulator and its key marked seen
add_record(state, record) ==
    LET old == IF record.team_id \in DOMAIN state.stats
               THEN state.stats[record.team_id] ELSE EffStat(record.team_id)
        new == [old EXCEPT !.actual_sum = @ + record.points,
                           !.optimal_sum = @ + record.optimal_points,
                           !.weeks = @ + 1]
    IN  [stats |-> [t \in DOMAIN state.stats \cup {record.team_id} |->
                       IF t = record.team_id THEN new ELSE state.stats[t]],
         seen |-> state.seen \cup {<<record.team_id, record.week>>}]

\* counts every record, seen before or not
update_one_always(state, record) == add_record(state, record)

\* one record: skipped when its key is in seen, else added and marked seen
update_one(state, record) ==
    IF <<record.team_id, record.week>> \in state.seen THEN state
    ELSE add_record(state, record)

RECURSIVE update_from(_, _, _)
update_from(state, week_records, i) ==
    IF i > Len(week_records) THEN state
    ELSE update_from(update_one(state, week_records[i]), week_records, i + 1)

\* the stats map and the seen set after the call
update_efficiency(stats_map, week_records, seen_pairs) ==
    update_from([stats |-> stats_map, seen |-> seen_pairs], week_records, 1)

MaxCalls == 2

\* TeamWeekScore, with the fields the accumulation reads
Score(team_id, w, points, optimal) ==
    [team_id |-> team_id, week |-> w, points |-> points, optimal_points |-> optimal]

ScoreChoices ==
    { Score(t, w, v[1], v[2]) :
        t \in 1..2, w \in 1..2, v \in {<<100000, 120000>>, <<200000, 300000>>} }

\* the batches of tests/test_efficiency.py
TestWeekOne ==
    << Score(1, 1, 100000, 110000), Score(2, 1, 90000, 100000),
       Score(3, 1, 80000, 120000), Score(2, 1, 999000, 999000) >>

TestWeekTwo ==
    << Score(1, 2, 95000, 115000), Score(2, 2, 105000, 105000),
       Score(3, 2, 70000, 140000) >>

\* a call's records: none, one or two drawn records, or a batch of the test
Batches ==
    {<<>>} \cup {<<a>> : a \in ScoreChoices}
    \cup {<<a, b>> : a \in ScoreChoices, b \in ScoreChoices}
    \cup {TestWeekOne, TestWeekTwo}

InitEfficiency ==
    /\ stats = <<>> /\ seen = {} /\ delivered = <<>>
    /\ ScoringIdle /\ SurvivorIdle /\ PirIdle /\ SeasonIdle /\ ClientIdle

\* main.py: update_efficiency(stats, week_scores, seen=dedupe_seen)
UpdateEfficiency ==
    /\ Len(delivered) < MaxCalls
    /\ \E batch \in Batches :
          LET after == update_efficiency(stats, batch, seen)
          IN  /\ stats' = after.stats
              /\ seen' = after.seen
              /\ delivered' = Append(delivered, batch)
    /\ UNCHANGED <<scoringVars, survivorVars, pirVars, seasonVars, clientVars>>

NextEfficiency == UpdateEfficiency

SpecEfficiency == InitEfficiency /\ [][NextEfficiency]_vars

-----------------------------------------------------------------------------
(* Properties of update_efficiency, under SpecEfficiency *)

RECURSIVE Flatten(_)
Flatten(batches) ==
    IF Len(batches) = 0 THEN <<>> ELSE Head(batches) \o Flatten(Tail(batches))

\* all the records passed so far, in delivery order
Delivered == Flatten(delivered)

DeliveredKeys == {<<Delivered[i].team_id, Delivered[i].week>> : i \in 1..Len(Delivered)}

DeliveredWeeks(team) == {k[2] : k \in {q \in DeliveredKeys : q[1] = team}}

\* the first record delivered for a (team_id, week) pair
FirstDelivered(team, w) ==
    Delivered[SetMin({i \in 1..Len(Delivered) :
                         Delivered[i].team_id = team /\ Delivered[i].week = w})]

C13_SumsOverFirstDelivered ==
    /\ seen = DeliveredKeys
    /\ DOMAIN stats = {k[1] : k \in DeliveredKeys}
    /\ \A team \in DOMAIN stats :
          LET W == DeliveredWeeks(team)
          IN  /\ stats[team].actual_sum =
                    SumOver([w \in W |-> FirstDelivered(team, w).points], W)
              /\ stats[team].optimal_sum =
                    SumOver([w \in W |-> FirstDelivered(team, w).optimal_points], W)
              /\ stats[team].weeks = Cardinality(W)
    /\ delivered = <<TestWeekOne, TestWeekTwo>> =>
          /\ stats[1].actual_sum = 195000 /\ stats[1].optimal_sum = 225000
          /\ stats[2].actual_sum = 195000 /\ stats[2].optimal_sum = 205000
          /\ stats[3].actual_sum = 150000 /\ stats[3].optimal_sum = 260000

C13_SeenRecordsChangeNothing ==
    LET batch == delivered'[Len(delivered')]
    IN  (/\ delivered' = Append(delivered, batch)
         /\ \/ \A i \in 1..Len(batch) : <<batch[i].team_id, batch[i].week>> \in seen
            \/ Len(delivered) > 0 /\ batch = delivered[Len(delivered)])
            => stats' = stats /\ seen' = seen

\* C13: after any sequence of calls on one stats map and one seen set, each
\* team's actual_sum and optimal_sum are the sums of points and
\* optimal_points over the first-delivered record of each of its (team_id,
\* week) pairs and its weeks counter is the number of these pairs; a call
\* whose records all have keys in seen, and so a call that repeats the batch
\* of the call before it, changes neither stats nor seen.
C13_EfficiencyDedupe ==
    [](C13_SumsOverFirstDelivered) /\ [][C13_SeenRecordsChangeNothing]_vars

\* a batch with two different records of team 1, week 1 was passed twice:
\* the team has one week and the sums of the first record
C13_Witness ==
    /\ Len(delivered) = 2
    /\ delivered[1] = delivered[2]
    /\ delivered[1] = <<Score(1, 1, 100000, 120000), Score(1, 1, 200000, 300000)>>
    /\ stats[1].weeks = 1
    /\ stats[1].actual_sum = 100000
    /\ stats[1].optimal_sum = 120000

-----------------------------------------------------------------------------
(* pir.py.  A table is the list of its rows in index order; a row is a      *)
(* record of its columns and of its index label idx.  The bench_points of   *)
(* an input row is None or Some(points).                                    *)

\* the order of two values of a column
col_less(col, a, b) ==
    IF col = "owner" THEN StrLess(a[col], b[col])
    ELSE IF col \in {"season_efficiency", "median_efficiency"}
    THEN FracLess(a[col], b[col])
    ELSE a[col] < b[col]

RECURSIVE lex_less_ascending(_, _, _, _)
\* the comparison with every column taken ascending
lex_less_ascending(a, b, keys, i) ==
    IF i > Len(keys) THEN FALSE
    ELSE IF col_less(keys[i][1], a, b) THEN TRUE
    ELSE IF col_less(keys[i][1], b, a) THEN FALSE
    ELSE lex_less_ascending(a, b, keys, i + 1)

RECURSIVE lex_less(_, _, _, _)
\* row a sorts before row b on the keys <<column, ascending>> from the i-th on
lex_less(a, b, keys, i) ==
    IF i > Len(keys) THEN FALSE
    ELSE
        LET before == IF keys[i][2] THEN col_less(keys[i][1], a, b)
                      ELSE col_less(keys[i][1], b, a)
            after == IF keys[i][2] THEN col_less(keys[i][1], b, a)
                     ELSE col_less(keys[i][1], a, b)
        IN  IF before THEN TRUE
            ELSE IF after THEN FALSE
            ELSE lex_less(a, b, keys, i + 1)

\* the row put behind the rows of a sorted list that do not sort after it
insert_sorted(rows, row, keys) ==
    LET behind == {i \in 1..Len(rows) : lex_less(row, rows[i], keys, 1)}
        at == IF behind = {} THEN Len(rows) + 1 ELSE SetMin(behind)
    IN  SubSeq(rows, 1, at - 1) \o <<row>> \o SubSeq(rows, at, Len(rows))

RECURSIVE sort_from(_, _, _, _)
sort_from(done, rows, keys, i) ==
    IF i > Len(rows) THEN done
    ELSE sort_from(insert_sorted(done, rows[i], keys), rows, keys, i + 1)

\* DataFrame.sort_values(columns, ascending=..., kind="mergesort"): stable
sort_values(rows, keys) == sort_from(<<>>, rows, keys, 1)

pir_rule_map ==
    [earliest_week |-> <<"week", TRUE>>,
     latest_week   |-> <<"week", FALSE>>,
     higher_bench  |-> <<"bench_points", FALSE>>,
     alphabetical  |-> <<"owner", TRUE>>]

RECURSIVE rule_keys(_, _, _)
\* the sort keys of the rules the map knows, in list order
rule_keys(rules, map, i) ==
    IF i > Len(rules) THEN <<>>
    ELSE IF rules[i] \in DOMAIN map
    THEN <<map[rules[i]]>> \o rule_keys(rules, map, i + 1)
    ELSE rule_keys(rules, map, i + 1)

apply_tiebreaks(rows, rules, base_sort) ==
    sort_values(rows, base_sort \o rule_keys(rules, pir_rule_map, 1))

\* lines 50-53: the columns compute_pir gives a row
pir_row(row, target, label_map) ==
    [idx |-> row.idx, team_id |-> row.team_id,
     owner |-> label_for(row.team_id, label_map),
     week |-> row.week, points |-> row.points,
     bench_points |-> IF row.bench_points = None THEN 0 ELSE row.bench_points[1],
     delta |-> target - row.points]

\* keeps every row
is_candidate_always(row) == TRUE

\* line 54
is_candidate(row) == row.delta >= 0

\* never a leader
leader_never(leaderboard, label_map) == NoValue

\* lines 59-70
leader_of(leaderboard, label_map) ==
    IF Len(leaderboard) = 0 THEN NoValue
    ELSE LET top == leaderboard[1]
         IN  [team_id |-> top.team_id,
              owner |-> label_for(top.team_id, label_map),
              week |-> top.week, points |-> top.points, delta |-> top.delta]

RECURSIVE map_rows(_, _, _, _)
map_rows(rows, target, label_map, i) ==
    IF i > Len(rows) THEN <<>>
    ELSE <<pir_row(rows[i], target, label_map)>>
         \o map_rows(rows, target, label_map, i + 1)

compute_pir(table, target, rules, scope, label_map) ==
    LET in_scope(row) == scope = {} \/ row.week \in scope
        working == map_rows(SelectSeq(table, in_scope), target, label_map, 1)
        candidates == SelectSeq(working, is_candidate)
        leaderboard == apply_tiebreaks(candidates, rules,
                                       << <<"delta", TRUE>>, <<"points", FALSE>> >>)
    IN  [leader |-> leader_of(leaderboard, label_map),
         leaderboard_df |-> leaderboard]

MaxRows == 2

\* a row of the input table, before its index label is set
PirRow(team_id, w, points, bench) ==
    [team_id |-> team_id, week |-> w, points |-> points, bench_points |-> bench]

PirRowChoices ==
    { PirRow(t, w, p, b) :
        t \in 1..2, w \in 1..2, p \in {149000, 150000, 151000},
        b \in {None, Some(12000)} }

\* the rows of a list with their positions as index labels
Indexed(rows) ==
    [i \in 1..Len(rows) |->
        [idx |-> i, team_id |-> rows[i].team_id, week |-> rows[i].week,
         points |-> rows[i].points, bench_points |-> rows[i].bench_points]]

RECURSIVE TablesOf(_, _)
\* the tables of at most n rows of the set choices
TablesOf(choices, n) ==
    IF n = 0 THEN {<<>>}
    ELSE LET shorter == TablesOf(choices, n - 1)
         IN  shorter \cup {Append(t, r) : t \in {u \in shorter : Len(u) = n - 1},
                                          r \in choices}

PirTables == {Indexed(t) : t \in TablesOf(PirRowChoices, MaxRows)}

\* the table of test_price_is_right_tiebreaks
TestPirTable ==
    Indexed(<< PirRow(1, 2, 149000, Some(12000)), PirRow(2, 1, 149000, Some(10000)),
               PirRow(3, 3, 147000, Some(20000)) >>)

TestPirChain == <<"earliest_week", "higher_bench", "alphabetical">>

PirArgs(table, target, rules, scope, label_map) ==
    [df |-> table, target |-> target, tiebreaks |-> rules, weeks_scope |-> scope,
     labels |-> label_map]

\* tie-break chains, scopes and labels the tables are ranked under
PirConfigs ==
    { <<c, {}, NoLabels>> :
        c \in { <<>>, TestPirChain, <<"latest_week">>, <<"higher_bench", "latest_week">>,
                <<"alphabetical", "earliest_week">>, <<"higher_median", "earliest_week">> } }
    \cup { << <<"alphabetical">>, {}, ReversedLabels(2)>>,
           << <<>>, {1}, NoLabels>>,
           <<TestPirChain, {3}, NoLabels>> }

PirInputs ==
    { PirArgs(t, 150000, c[1], c[2], c[3]) : t \in PirTables, c \in PirConfigs }
    \cup { PirArgs(TestPirTable, 150000, TestPirChain, {1, 2, 3},
                   [team \in 1..3 |-> <<64 + team>>]) }

InitPir ==
    /\ pir_args \in PirInputs
    /\ pir_result = NoValue
    /\ ScoringIdle /\ SurvivorIdle /\ EfficiencyIdle /\ SeasonIdle /\ ClientIdle

\* main.py: pir_result = compute_pir(scoring_df, target=..., ...)
ComputePir ==
    /\ pir_result = NoValue
    /\ pir_result' = compute_pir(pir_args.df, pir_args.target, pir_args.tiebreaks,
                                 pir_args.weeks_scope, pir_args.labels)
    /\ UNCHANGED <<pir_args, scoringVars, survivorVars, effVars, seasonVars, clientVars>>

NextPir == ComputePir

SpecPir == InitPir /\ [][NextPir]_vars

-----------------------------------------------------------------------------
(* Properties of compute_pir, under SpecPir *)

PirDone == pir_result # NoValue

Board == pir_result.leaderboard_df

\* the index labels of the input rows in the week scope
InScopeIdx ==
    {i \in 1..Len(pir_args.df) :
        pir_args.weeks_scope = {} \/ pir_args.df[i].week \in pir_args.weeks_scope}

BoardIdx == {Board[i].idx : i \in 1..Len(Board)}

\* C14: no row with points above the target is in the leaderboard, every
\* row of the week scope with points at most the target is in it, once and
\* with its own values, and a leader is the first leaderboard row, whose
\* delta = target - points is the least of the leaderboard and not negative.
C14_LeaderboardNeverOver ==
    PirDone =>
        /\ \A i \in 1..Len(Board) : Board[i].points <= pir_args.target
        /\ BoardIdx = {i \in InScopeIdx : pir_args.df[i].points <= pir_args.target}
        /\ Cardinality(BoardIdx) = Len(Board)
        /\ \A i \in 1..Len(Board) :
              LET row == pir_args.df[Board[i].idx]
              IN  /\ Board[i].team_id = row.team_id
                  /\ Board[i].week = row.week
                  /\ Board[i].points = row.points
                  /\ Board[i].delta = pir_args.target - row.points
        /\ pir_result.leader # NoValue =>
              /\ Len(Board) > 0
              /\ pir_result.leader.team_id = Board[1].team_id
              /\ pir_result.leader.week = Board[1].week
              /\ pir_result.leader.points = Board[1].points
              /\ pir_result.leader.delta = Board[1].delta
              /\ pir_result.leader.delta >= 0
              /\ \A i \in 1..Len(Board) : pir_result.leader.delta <= Board[i].delta

\* of two rows in scope the one above the target was dropped and the one at
\* the target leads with delta 0
C14_Witness ==
    /\ PirDone
    /\ Len(pir_args.df) = 2
    /\ InScopeIdx = {1, 2}
    /\ \E i \in 1..2 : pir_args.df[i].points > pir_args.target
    /\ Len(Board) = 1
    /\ pir_result.leader # NoValue
    /\ pir_result.leader.delta = 0

\* the bench points of a leaderboard row as the input table has them,
\* a missing value counted as 0
BenchOf(row) ==
    LET bench == pir_args.df[row.idx].bench_points
    IN  IF bench = None THEN 0 ELSE bench[1]

\* -1, 0 or 1: row a is before, level with or after row b on one key
PirKeyOrder(key, a, b) ==
    LET num(x, y) == IF x < y THEN -1 ELSE IF x > y THEN 1 ELSE 0
        la == label_for(a.team_id, pir_args.labels)
        lb == label_for(b.team_id, pir_args.labels)
    IN  IF key = "delta" THEN num(a.delta, b.delta)
        ELSE IF key = "points" THEN num(b.points, a.points)
        ELSE IF key = "earliest_week" THEN num(a.week, b.week)
        ELSE IF key = "latest_week" THEN num(b.week, a.week)
        ELSE IF key = "higher_bench" THEN num(BenchOf(b), BenchOf(a))
        ELSE IF key = "alphabetical"
        THEN IF StrLess(la, lb) THEN -1 ELSE IF StrLess(lb, la) THEN 1 ELSE 0
        ELSE 0

PirKeys == <<"delta", "points">> \o pir_args.tiebreaks

RECURSIVE PirOrder(_, _, _)
\* the first key from the i-th on that tells the rows apart decides
PirOrder(a, b, i) ==
    IF i > Len(PirKeys) THEN 0
    ELSE IF PirKeyOrder(PirKeys[i], a, b) # 0 THEN PirKeyOrder(PirKeys[i], a, b)
    ELSE PirOrder(a, b, i + 1)

\* C15: the leaderboard is in lexicographic order of ascending delta, then
\* descending points, then the configured rules in list order (earliest_week,
\* latest_week, higher_bench with a missing bench as 0, alphabetical by
\* label), and rows level on every key keep their input order.  The rows
\* 149 in week 2, 149 in week 1 and 147 in week 3 with target 150 and chain
\* earliest_week, higher_bench, alphabetical come out as week 1, week 2,
\* week 3, led by the week 1 row.
C15_LeaderboardOrder ==
    PirDone =>
        /\ \A i, j \in 1..Len(Board) :
              i < j => /\ PirOrder(Board[i], Board[j], 1) <= 0
                       /\ PirOrder(Board[i], Board[j], 1) = 0
                             => Board[i].idx < Board[j].idx
        /\ (pir_args.df = TestPirTable /\ pir_args.tiebreaks = TestPirChain) =>
              /\ Len(Board) = 3
              /\ <<Board[1].week, Board[2].week, Board[3].week>> = <<1, 2, 3>>
              /\ pir_result.leader.week = 1
              /\ pir_result.leader.team_id = 2

\* the table of the test was ranked: the week 1 row of team 2 leads
C15_Witness ==
    /\ PirDone
    /\ pir_args.df = TestPirTable
    /\ pir_args.tiebreaks = TestPirChain
    /\ Board[1].team_id = 2
    /\ Board[2].team_id = 1
    /\ Board[3].team_id = 3

\* two rows with the same points were put in order by a descending rule
C15_WitnessDescending ==
    /\ PirDone
    /\ pir_args.tiebreaks = <<"latest_week">>
    /\ Len(Board) = 2
    /\ Board[1].points = Board[2].points
    /\ Board[1].week > Board[2].week
    /\ Board[1].idx < Board[2].idx

\* C16: when every row of the week scope is above the target, or the scope
\* has no row, the call returns with no leader and an empty leaderboard; and
\* there is no leader only when the leaderboard is empty.
C16_NoLeaderIffEmpty ==
    PirDone =>
        /\ (\A i \in InScopeIdx : pir_args.df[i].points > pir_args.target)
              => pir_result.leader = NoValue /\ Len(Board) = 0
        /\ pir_result.leader = NoValue => Len(Board) = 0

\* both rows of the table are in scope and above the target: no leader
C16_Witness ==
    /\ PirDone
    /\ Len(pir_args.df) = 2
    /\ InScopeIdx = {1, 2}
    /\ \A i \in InScopeIdx : pir_args.df[i].points > pir_args.target
    /\ pir_result.leader = NoValue
    /\ pir_result.leaderboard_df = <<>>

\* the table has rows but none in the week scope
C16_WitnessOutOfScope ==
    /\ PirDone
    /\ Len(pir_args.df) > 0
    /\ InScopeIdx = {}
    /\ pir_result.leader = NoValue

-----------------------------------------------------------------------------
(* efficiency.py: season_efficiency.  A row of the input table is           *)
(* [team_id, owner, week, points, optimal_points, efficiency], the          *)
(* efficiency a fraction and the owner a string.                            *)

eff_rule_map ==
    [higher_median       |-> <<"median_efficiency", FALSE>>,
     higher_total_points |-> <<"total_points", FALSE>>,
     lower_total_points  |-> <<"total_points", TRUE>>,
     alphabetical        |-> <<"owner", TRUE>>]

\* the sort on the base columns alone
apply_base_sort_only(rows, rules, base_sort) == sort_values(rows, base_sort)

apply_efficiency_tiebreaks(rows, rules, base_sort) ==
    sort_values(rows, base_sort \o rule_keys(rules, eff_rule_map, 1))

RECURSIVE sorted_fracs(_)
\* a list of fractions in ascending order
sorted_fracs(list) ==
    IF Len(list) = 0 THEN <<>>
    ELSE LET rest == sorted_fracs(Tail(list))
             smaller(x) == FracLess(x, Head(list))
             others(x) == ~FracLess(x, Head(list))
         IN  SelectSeq(rest, smaller) \o <<Head(list)>> \o SelectSeq(rest, others)

\* Series.mean
mean_of(list) ==
    LET total == FracSum(list) IN Frac(total[1], total[2] * Len(list))

\* Series.median
median_of(list) ==
    LET ordered == sorted_fracs(list)
        n == Len(list)
    IN  IF n % 2 = 1 THEN ordered[(n + 1) \div 2]
        ELSE mean_of(<<ordered[n \div 2], ordered[n \div 2 + 1]>>)

\* the keys of groupby(["team_id", "owner"]) in their sorted order
RECURSIVE sorted_keys(_)
sorted_keys(keys) ==
    IF keys = {} THEN <<>>
    ELSE LET first == CHOOSE k \in keys :
                         \A q \in keys :
                             \/ k[1] < q[1]
                             \/ k[1] = q[1] /\ ~StrLess(q[2], k[2])
         IN  <<first>> \o sorted_keys(keys \ {first})

\* line 44: one group for each (team_id, owner) pair of the rows
group_keys(subset) == {<<subset[i].team_id, subset[i].owner>> : i \in 1..Len(subset)}

\* lines 44-51: the aggregated row of the group at position idx
aggregate(subset, key, idx) ==
    LET in_group(row) == row.team_id = key[1] /\ row.owner = key[2]
        rows == SelectSeq(subset, in_group)
        effs == [i \in 1..Len(rows) |-> rows[i].efficiency]
    IN  [idx |-> idx, team_id |-> key[1], owner |-> key[2],
         games_played |-> Cardinality({rows[i].week : i \in 1..Len(rows)}),
         total_points |-> SumOver([i \in 1..Len(rows) |-> rows[i].points], 1..Len(rows)),
         total_optimal |-> SumOver([i \in 1..Len(rows) |-> rows[i].optimal_points],
                                   1..Len(rows)),
         mean_efficiency |-> mean_of(effs),
         median_efficiency |-> median_of(effs),
         season_efficiency |-> mean_of(effs)]

\* DataFrame.head(n)
head(rows, n) == SubSeq(rows, 1, IF Len(rows) < n THEN Len(rows) ELSE n)

\* DataFrame.tail(n)
tail(rows, n) == SubSeq(rows, IF Len(rows) < n THEN 1 ELSE Len(rows) - n + 1, Len(rows))

season_efficiency(table, weeks, rules) ==
    LET in_weeks(row) == row.week \in Range(weeks)
        subset == SelectSeq(table, in_weeks)
        keys == sorted_keys(group_keys(subset))
        grouped == [i \in 1..Len(keys) |-> aggregate(subset, keys[i], i)]
        ordered == apply_efficiency_tiebreaks(
                       grouped, rules,
                       << <<"season_efficiency", FALSE>>, <<"games_played", FALSE>> >>)
    IN  IF Len(subset) = 0
        THEN [table |-> <<>>, top_df |-> <<>>, bottom_df |-> <<>>]
        ELSE [table |-> ordered, top_df |-> head(ordered, 3),
              bottom_df |-> tail(ordered, 3)]

SeasonRow(team_id, owner, w, points, optimal) ==
    [team_id |-> team_id, owner |-> owner, week |-> w, points |-> points,
     optimal_points |-> optimal, efficiency |-> RowOf(points, optimal).efficiency]

SeasonRowChoices ==
    { SeasonRow(t, o, w, p, 100000) :
        t \in 1..2, o \in {<<65>>, <<66>>}, w \in 1..2, p \in {90000, 50000} }

\* tables of four and five teams with one row each
WideTables ==
    { [i \in 1..n |-> SeasonRow(i, <<64 + i>>, 1, points[i], 100000)] :
        n \in {4, 5}, points \in [1..5 -> {90000, 50000}] }

\* the table of test_efficiency_tiebreak_chain
TestSeasonTable ==
    << SeasonRow(1, <<65, 108, 112, 104, 97>>, 1, 100000, 100000),
       SeasonRow(2, <<66, 101, 116, 97>>, 1, 95000, 100000),
       SeasonRow(1, <<65, 108, 112, 104, 97>>, 2, 80000, 100000),
       SeasonRow(2, <<66, 101, 116, 97>>, 2, 95000, 100000),
       SeasonRow(1, <<65, 108, 112, 104, 97>>, 3, 90000, 100000),
       SeasonRow(2, <<66, 101, 116, 97>>, 3, 80000, 100000) >>

TestSeasonChain == <<"higher_median", "higher_total_points", "alphabetical">>

SeasonArgs(table, weeks, rules) == [df |-> table, weeks |-> weeks, tiebreaks |-> rules]

SeasonConfigs ==
    { <<c, <<1, 2>> >> :
        c \in { <<>>, TestSeasonChain, <<"lower_total_points">>, <<"alphabetical">>,
                <<"earliest_week", "higher_total_points">> } }
    \cup { << <<>>, <<1>> >>, << <<>>, <<>> >>, << <<"alphabetical">>, <<3>> >> }

\* one record for each team and week
one_row_per_team_week(table) ==
    \A i, j \in 1..Len(table) :
        (table[i].team_id = table[j].team_id /\ table[i].week = table[j].week) => i = j

SeasonTables == {t \in TablesOf(SeasonRowChoices, MaxRows) : one_row_per_team_week(t)}

SeasonInputs ==
    { SeasonArgs(t, c[2], c[1]) : t \in SeasonTables, c \in SeasonConfigs }
    \cup { SeasonArgs(t, <<1>>, c) : t \in WideTables, c \in {<<>>, <<"alphabetical">>} }
    \cup { SeasonArgs(TestSeasonTable, <<1, 2, 3>>, TestSeasonChain) }

InitSeason ==
    /\ se_args \in SeasonInputs
    /\ se_result = NoValue
    /\ ScoringIdle /\ SurvivorIdle /\ EfficiencyIdle /\ PirIdle /\ ClientIdle

\* the call season_efficiency(df, weeks, tiebreaks)
SeasonEfficiencyCall ==
    /\ se_result = NoValue
    /\ se_result' = season_efficiency(se_args.df, se_args.weeks, se_args.tiebreaks)
    /\ UNCHANGED <<se_args, scoringVars, survivorVars, effVars, pirVars, clientVars>>

NextSeason == SeasonEfficiencyCall

SpecSeason == InitSeason /\ [][NextSeason]_vars

SeasonDone == se_result # NoValue

Table == se_result.table

Min(a, b) == IF a < b THEN a ELSE b

\* -1, 0 or 1: table row a is before, level with or after row b on one key
SeasonKeyOrder(key, a, b) ==
    LET num(x, y) == IF x < y THEN -1 ELSE IF x > y THEN 1 ELSE 0
        frac(x, y) == IF FracLess(x, y) THEN -1 ELSE IF FracLess(y, x) THEN 1 ELSE 0
    IN  IF key = "season_efficiency" THEN frac(b.mean_efficiency, a.mean_efficiency)
        ELSE IF key = "games_played" THEN num(b.games_played, a.games_played)
        ELSE IF key = "higher_median" THEN frac(b.median_efficiency, a.median_efficiency)
        ELSE IF key = "higher_total_points" THEN num(b.total_points, a.total_points)
        ELSE IF key = "lower_total_points" THEN num(a.total_points, b.total_points)
        ELSE IF key = "alphabetical"
        THEN IF StrLess(a.owner, b.owner) THEN -1
             ELSE IF StrLess(b.owner, a.owner) THEN 1 ELSE 0
        ELSE 0

SeasonKeys == <<"season_efficiency", "games_played">> \o se_args.tiebreaks

RECURSIVE SeasonOrder(_, _, _)
\* the first key from the i-th on that tells the rows apart decides
SeasonOrder(a, b, i) ==
    IF i > Len(SeasonKeys) THEN 0
    ELSE IF SeasonKeyOrder(SeasonKeys[i], a, b) # 0
    THEN SeasonKeyOrder(SeasonKeys[i], a, b)
    ELSE SeasonOrder(a, b, i + 1)

\* C17: the table of season_efficiency is in order of descending season
\* (mean) efficiency, then descending games_played, then the configured
\* rules in list order (higher_median, higher_total_points,
\* lower_total_points, alphabetical by owner), rows level on every key
\* keeping their group order; top_df is the first min(3, n) rows and
\* bottom_df the last min(3, n) rows of the table.  Two teams level on season
\* efficiency and games played come out with the higher median first when
\* higher_median is the first rule, as in the table of the test.
C17_SeasonTableOrder ==
    SeasonDone =>
        /\ \A i, j \in 1..Len(Table) :
              i < j => /\ SeasonOrder(Table[i], Table[j], 1) <= 0
                       /\ SeasonOrder(Table[i], Table[j], 1) = 0
                             => Table[i].idx < Table[j].idx
        /\ \A i \in 1..Len(Table) : Table[i].season_efficiency = Table[i].mean_efficiency
        /\ se_result.top_df = SubSeq(Table, 1, Min(3, Len(Table)))
        /\ se_result.bottom_df =
              SubSeq(Table, Len(Table) - Min(3, Len(Table)) + 1, Len(Table))
        /\ (Len(se_args.tiebreaks) > 0 /\ se_args.tiebreaks[1] = "higher_median") =>
              \A i, j \in 1..Len(Table) :
                  ( /\ Table[i].season_efficiency = Table[j].season_efficiency
                    /\ Table[i].games_played = Table[j].games_played
                    /\ FracLess(Table[j].median_efficiency, Table[i].median_efficiency) )
                  => i < j
        /\ (se_args.df = TestSeasonTable /\ se_args.tiebreaks = TestSeasonChain) =>
              /\ Len(Table) = 2
              /\ Table[1].team_id = 2
              /\ Table[1].season_efficiency = Table[2].season_efficiency

\* the table of the test was ranked: both teams have mean 9/10 and three
\* games, and team 2 with median 19/20 is before team 1 with median 9/10
C17_Witness ==
    /\ SeasonDone
    /\ se_args.df = TestSeasonTable
    /\ se_args.tiebreaks = TestSeasonChain
    /\ Table[1].team_id = 2 /\ Table[2].team_id = 1
    /\ Table[1].mean_efficiency = Frac(9, 10)
    /\ Table[2].mean_efficiency = Frac(9, 10)
    /\ Table[1].games_played = 3 /\ Table[2].games_played = 3
    /\ Table[1].median_efficiency = Frac(19, 20)
    /\ Table[2].median_efficiency = Frac(9, 10)

\* a table of five teams: the top three and the bottom three share one row
C17_WitnessTopBottom ==
    /\ SeasonDone
    /\ Len(Table) = 5
    /\ Len(se_result.top_df) = 3 /\ Len(se_result.bottom_df) = 3
    /\ se_result.top_df[3] = se_result.bottom_df[1]
    /\ FracLess(Table[5].season_efficiency, Table[1].season_efficiency)
    /\ Table[1].idx > Table[5].idx

\* the index labels of the input rows in the week scope
ScopedIdx == {i \in 1..Len(se_args.df) : se_args.df[i].week \in Range(se_args.weeks)}

ScopedIdxOf(team_id) == {i \in ScopedIdx : se_args.df[i].team_id = team_id}

TableRowsOf(team_id) == {i \in 1..Len(Table) : Table[i].team_id = team_id}

\* C18: the table of season_efficiency has exactly one row for each team_id
\* with a row in the week scope, also when the team_id has different owner
\* labels in different weeks; games_played of that row is the number of
\* distinct scoped weeks of the team and its totals are the sums over all the
\* scoped rows of the team.
C18_OneRowPerTeam ==
    SeasonDone =>
        /\ \A i \in 1..Len(Table) : ScopedIdxOf(Table[i].team_id) # {}
        /\ \A i \in ScopedIdx :
              LET team_id == se_args.df[i].team_id
                  mine == ScopedIdxOf(team_id)
                  points == [k \in mine |-> se_args.df[k].points]
                  optimal == [k \in mine |-> se_args.df[k].optimal_points]
              IN  /\ Cardinality(TableRowsOf(team_id)) = 1
                  /\ \A j \in TableRowsOf(team_id) :
                        /\ Table[j].games_played =
                              Cardinality({se_args.df[k].week : k \in mine})
                        /\ Table[j].total_points = SumOver(points, mine)
                        /\ Table[j].total_optimal = SumOver(optimal, mine)

-----------------------------------------------------------------------------
(* Order of the roster and of the slot requirements (checked under Spec) *)

RECURSIVE Orderings(_)
\* every ordering of the items of a sequence
Orderings(seq) ==
    IF Len(seq) = 0 THEN {<<>>}
    ELSE UNION { { <<seq[i]>> \o rest :
                     rest \in Orderings(SubSeq(seq, 1, i - 1)
                                             \o SubSeq(seq, i + 1, Len(seq))) } :
                 i \in 1..Len(seq) }

\* the sequence with the items at i and j exchanged
Swap(seq, i, j) ==
    [k \in 1..Len(seq) |-> IF k = i THEN seq[j] ELSE IF k = j THEN seq[i] ELSE seq[k]]

Reverse(seq) == [k \in 1..Len(seq) |-> seq[Len(seq) + 1 - k]]

\* every ordering of a short sequence; of a long one every exchange of two
\* items and the reverse
Reorderings(seq) ==
    IF Len(seq) <= 4 THEN Orderings(seq)
    ELSE {Swap(seq, i, j) : i, j \in 1..Len(seq)} \cup {Reverse(seq)}

\* With points as exact amounts the optimal points that
\* _optimal_lineup_score and add_optimal_points compute do not change when
\* the roster entries, the keys of slot_counts or the expanded slot list are
\* reordered.  Every drawn roster is checked in each of its orderings against
\* each ordering of the slots, and against the reversed slots with the roster
\* reordered as well.
ExactOrderInvariant ==
    pc = "scored" =>
        LET scored(players, counts) ==
                add_optimal_points([points |-> tws.points, roster |-> players],
                                   counts).optimal_points
        IN  /\ \A players \in Reorderings(tws.roster) :
                  /\ scored(players, slot_counts) = df_row.optimal_points
                  /\ scored(players, Reverse(slot_counts)) = df_row.optimal_points
                  /\ optimal_lineup_score(players, Reverse(Slots))
                        = optimal_lineup_score(tws.roster, Slots)
            /\ \A counts \in Reorderings(slot_counts) :
                  scored(tws.roster, counts) = df_row.optimal_points
            /\ \A slots \in Reorderings(Slots) :
                  optimal_lineup_score(tws.roster, slots)
                      = optimal_lineup_score(tws.roster, Slots)

-----------------------------------------------------------------------------
(* Empty roster and empty slot list (checked under Spec) *)

\* the values tried as the actual_points argument
ActualPoints == PointValues \cup {0, tws.points}

C20_WitnessEmptyRoster ==
    /\ pc = "scored"
    /\ Len(tws.roster) = 0
    /\ Len(Slots) > 0
    /\ df_row.optimal_points = 0

-----------------------------------------------------------------------------
(* scoring.py: the solver in the arithmetic of Python floats.  A float that  *)
(* is 0 or lies in [2^-11, 2^16) is a whole number of units of 2^-64; it is  *)
(* kept as the six digits of that number in base 2^15, the lowest first.     *)
(* Points are not negative here.                                             *)

RECURSIVE add_digits(_, _, _, _)
\* the digits from the i-th on of a + b, carry being carried into digit i
add_digits(a, b, i, carry) ==
    IF i > Len(a) THEN <<>>
    ELSE <<(a[i] + b[i] + carry) % 2^15>>
             \o add_digits(a, b, i + 1, (a[i] + b[i] + carry) \div 2^15)

\* the exact sum
exact_add(a, b) == add_digits(a, b, 1, 0)

RECURSIVE times_digits(_, _, _, _)
\* the digits from the i-th on of a * k for a small k
times_digits(a, k, i, carry) ==
    IF i > Len(a) THEN <<>>
    ELSE <<(a[i] * k + carry) % 2^15>>
             \o times_digits(a, k, i + 1, (a[i] * k + carry) \div 2^15)

RECURSIVE divide_digits(_, _, _, _)
\* long division of a by a small k from the i-th digit down, rem carried from
\* above: the remainder, then the quotient's digits 1..i
divide_digits(a, k, i, rem) ==
    IF i = 0 THEN <<rem>>
    ELSE divide_digits(a, k, i - 1, (rem * 2^15 + a[i]) % k)
             \o <<(rem * 2^15 + a[i]) \div k>>

\* the binary digit of place i, the lowest place being 1
bit(a, i) == (a[(i - 1) \div 15 + 1] \div 2^((i - 1) % 15)) % 2

\* the number of the lowest k binary digits of a
low_bits(a, k) ==
    << IF k >= 15 THEN a[1] ELSE IF k <= 0 THEN 0 ELSE a[1] % 2^k,
       IF k >= 30 THEN a[2] ELSE IF k <= 15 THEN 0 ELSE a[2] % 2^(k - 15),
       IF k >= 45 THEN a[3] ELSE IF k <= 30 THEN 0 ELSE a[3] % 2^(k - 30),
       IF k >= 60 THEN a[4] ELSE IF k <= 45 THEN 0 ELSE a[4] % 2^(k - 45),
       IF k >= 75 THEN a[5] ELSE IF k <= 60 THEN 0 ELSE a[5] % 2^(k - 60),
       IF k >= 90 THEN a[6] ELSE IF k <= 75 THEN 0 ELSE a[6] % 2^(k - 75) >>

f64_zero == <<0, 0, 0, 0, 0, 0>>

\* the place of the highest binary digit 1; 0 for zero
bit_length(a) ==
    IF a = f64_zero THEN 0
    ELSE SetMax({i \in 1..90 : bit(a, i) = 1})

\* the nearest number of 53 significant binary digits, a tie going to the
\* even one; inexact says that a was cut off from a number a little above it
round_to_f64(a, inexact) ==
    LET drop == bit_length(a) - 53
        low == low_bits(a, drop)
        kept == <<a[1] - low[1], a[2] - low[2], a[3] - low[3],
                  a[4] - low[4], a[5] - low[5], a[6] - low[6]>>
        unit == low_bits(<<2^15 - 1, 2^15 - 1, 2^15 - 1, 2^15 - 1, 2^15 - 1, 2^15 - 1>>,
                         drop)
        above_zero == inexact \/ low_bits(a, drop - 1) # f64_zero
    IN  IF drop <= 0 THEN a
        ELSE IF bit(a, drop) = 1 /\ (above_zero \/ bit(a, drop + 1) = 1)
        THEN exact_add(exact_add(kept, unit), <<1, 0, 0, 0, 0, 0>>)
        ELSE kept

\* float(points) of the decimal amount n / 1000: n * 2^64 / 1000, rounded
f64_of_thousandths(n) ==
    LET scaled == <<0, 0, 0, 0, (16 * n) % 2^15, (16 * n) \div 2^15>>
        divided == divide_digits(scaled, 1000, 6, 0)
    IN  round_to_f64(SubSeq(divided, 2, 7), divided[1] # 0)

\* a + b of two floats
f64_add(a, b) == round_to_f64(exact_add(a, b), FALSE)

\* a < b
f64_less(a, b) ==
    \E i \in 1..6 : a[i] < b[i] /\ \A j \in (i + 1)..6 : a[j] = b[j]

f64_max(values) == CHOOSE x \in values : \A y \in values : ~f64_less(x, y)

\* round(x, 2) in thousandths: the nearest hundredth of the exact value of x,
\* a tie going to the even hundredth
f64_round2(a) ==
    LET times_100 == times_digits(a, 100, 1, 0)
        cents == times_100[5] \div 16 + 2^11 * times_100[6]
        up == /\ bit(times_100, 64) = 1
              /\ low_bits(times_100, 63) # f64_zero \/ cents % 2 = 1
    IN  10 * (IF up THEN cents + 1 ELSE cents)

RECURSIVE best_f64(_, _, _, _, _)
\* _best(slot_idx, used_mask) on floats: candidate = points[p] + _best(...)
best_f64(players, points, slots, slot_idx, used) ==
    IF slot_idx > Len(slots) THEN f64_zero
    ELSE
        LET skip == best_f64(players, points, slots, slot_idx + 1, used)
            cands == { f64_add(points[p],
                               best_f64(players, points, slots, slot_idx + 1,
                                        used \cup {p})) :
                       p \in { q \in 1..Len(players) :
                                 /\ q \notin used
                                 /\ slot_allows(slots[slot_idx],
                                                players[q].eligible_slots) } }
        IN  f64_max(cands \cup {skip})

\* _optimal_lineup_score on floats, the result in thousandths
optimal_lineup_score_f64(players, slots) ==
    IF Len(players) = 0 \/ Len(slots) = 0 THEN 0
    ELSE LET points == [p \in 1..Len(players) |->
                           f64_of_thousandths(players[p].points)]
         IN  f64_round2(best_f64(players, points, slots, 1, {}))

\* points with three decimals, as leagues with fractional scoring have them
FractionalPoints == {20350, 22182, 11213, 10000}

\* a quarterback, a running back and a wide receiver, each fit for the slot
\* of the position only
FixedRoster(points) ==
    << Player("QB", {"QB"}, "QB", points[1]),
       Player("RB", {"RB"}, "RB", points[2]),
       Player("WR", {"WR"}, "WR", points[3]) >>

FixedSlotCounts == << <<"QB", 1>>, <<"RB", 1>>, <<"WR", 1>>, <<"BE", 2>> >>

InitSolver ==
    /\ roster \in {FixedRoster(points) : points \in [1..3 -> FractionalPoints]}
    /\ slot_counts \in Orderings(FixedSlotCounts)
    /\ tws = NoValue
    /\ df_row = NoValue
    /\ pc = "start"
    /\ SurvivorIdle
    /\ ReportsIdle

\* add_optimal_points on the row of the roster: the solver's column
SolveLineup ==
    /\ pc = "start"
    /\ df_row' = [optimal_points |->
                     optimal_lineup_score_f64(roster, expand_lineup_slots(slot_counts))]
    /\ pc' = "scored"
    /\ UNCHANGED <<roster, slot_counts, tws, survivorVars, reportVars>>

NextSolver == SolveLineup

SpecSolver == InitSolver /\ [][NextSolver]_vars

\* C19: for every roster and slot_counts the optimal points of
\* _optimal_lineup_score / add_optimal_points are the same under every
\* reordering of the roster entries and every reordering of the keys of
\* slot_counts (of the expanded slot list): the multiset of players and the
\* multiset of slots determine the result.
C19_OrderInvariant ==
    pc = "scored" =>
        /\ \A players \in Orderings(roster) :
              optimal_lineup_score_f64(players, expand_lineup_slots(slot_counts))
                  = df_row.optimal_points
        /\ \A counts \in Orderings(slot_counts) :
              optimal_lineup_score_f64(roster, expand_lineup_slots(counts))
                  = df_row.optimal_points

\* reordering the roster alone never changes the result
FloatRosterOrderInvariant ==
    pc = "scored" =>
        \A players \in Orderings(roster) :
            optimal_lineup_score_f64(players, expand_lineup_slots(slot_counts))
                = df_row.optimal_points

-----------------------------------------------------------------------------
(* Bench, IR and taxi labels in the scoring pipeline (checked under          *)
(* SpecBench: the pipeline of Spec on rosters and rules with these labels)   *)

\* the slot labels of the drawn lineups: a starter slot and the labels the
\* two modules name for bench, injured reserve and taxi squad
LineupLabels == {"QB", "BE", "BN", "BENCH", "IR", "RES", "INJ", "TAXI"}

BenchPlayers ==
    { Player("QB", {"QB", "OP"}, label, points) :
        label \in LineupLabels, points \in {10000, 20000} }

BenchRosters == UNION { [1..n -> BenchPlayers] : n \in 0..MaxRoster }

BenchSlotConfigs ==
    { << <<"QB", 1>>, <<label, 1>> >> : label \in LineupLabels \ {"QB"} }

InitBench ==
    /\ roster \in BenchRosters
    /\ slot_counts \in BenchSlotConfigs
    /\ tws = NoValue
    /\ df_row = NoValue
    /\ pc = "start"
    /\ SurvivorIdle
    /\ ReportsIdle

SpecBench == InitBench /\ [][Next]_vars

BenchLabels == {"BE", "BN", "BENCH", "IR", "RES", "INJ", "TAXI"}

\* the labels build_slot_plan_from_lineup made fixed slots of
PlanLabels(players) ==
    LET plan == build_slot_plan_from_lineup(players)
    IN  {plan.fixed[i][1] : i \in 1..Len(plan.fixed)}

\* C21: a player in a bench, IR or taxi slot (BE, BN, BENCH, IR, RES, INJ,
\* TAXI) adds nothing to the points fetch_week_scores computes, none of
\* these labels becomes a lineup slot in _expand_lineup_slots or in
\* build_slot_plan_from_lineup, and the two modules exclude the same labels.
C21_BenchNeverCounts ==
    pc # "start" =>
        /\ STARTER_EXCLUDES = EXPAND_EXCLUDES
        /\ tws.points =
              SumOver([i \in 1..Len(roster) |-> roster[i].points],
                      {i \in 1..Len(roster) : roster[i].slot \notin BenchLabels})
        /\ Range(expand_lineup_slots(slot_counts)) \cap BenchLabels = {}
        /\ PlanLabels(roster) \cap BenchLabels = {}

-----------------------------------------------------------------------------
(* _slot_allows on every slot label and eligible-slot collection (checked    *)
(* under SpecAllows: the pipeline of Spec on one player and one slot)        *)

SlotLabels ==
    {"QB", "TQB", "RB", "WR", "TE", "K", "D/ST", "OP", "ER",
     "RB/WR/TE", "WR/TE", "RB/WR"}

EligibleLabels == {"QB", "TQB", "RB", "WR", "TE", "K", "D", "D/ST", "OP", "RB/WR/TE"}

InitAllows ==
    /\ \E eligible \in SUBSET EligibleLabels :
           roster = << Player("QB", eligible, "BE", 10000) >>
    /\ \E label \in SlotLabels : slot_counts = << <<label, 1>>, <<"BE", 1>> >>
    /\ tws = NoValue
    /\ df_row = NoValue
    /\ pc = "start"
    /\ SurvivorIdle
    /\ ReportsIdle

SpecAllows == InitAllows /\ [][Next]_vars

\* the slot and the eligible slots of the case
TheSlot == slot_counts[1][1]

TheEligible == roster[1].eligible_slots

\* the four cases of the rule, each on its own
Allowed(slot, eligible) ==
    \/ slot \in eligible
    \/ HasSlash(slot) /\ \E part \in SplitSlash(slot) : part \in eligible
    \/ slot = "OP" /\ \E position \in {"QB", "RB", "WR", "TE", "TQB"} : position \in eligible
    \/ slot = "ER" /\ \E position \in {"RB", "WR", "TE"} : position \in eligible

\* C22: _slot_allows(s, E) is true exactly when s is in E, or s has a '/'
\* and one of its parts between the slashes is in E, or s is OP and E has one
\* of QB, RB, WR, TE, TQB, or s is ER and E has one of RB, WR, TE.  The solver
\* gives the slot to the player exactly in these cases, so a player with no
\* eligible slot is allowed nowhere, is never assigned and adds 0.
C22_SlotAllows ==
    pc = "scored" =>
        /\ slot_allows(TheSlot, TheEligible) <=> Allowed(TheSlot, TheEligible)
        /\ df_row.optimal_points =
              IF Allowed(TheSlot, TheEligible) THEN roster[1].points ELSE 0
        /\ TheEligible = {} =>
              /\ \A label \in SlotLabels : ~slot_allows(label, TheEligible)
              /\ df_row.optimal_points = 0

\* a player eligible for RB and K only was given the OP slot
C22_Witness ==
    /\ pc = "scored"
    /\ TheSlot = "OP"
    /\ TheEligible = {"RB", "K"}
    /\ df_row.optimal_points = roster[1].points

\* a player with no eligible slot was scored and added nothing
C22_WitnessNoEligibility ==
    /\ pc = "scored"
    /\ TheEligible = {}
    /\ roster[1].points > 0
    /\ df_row.optimal_points = 0

-----------------------------------------------------------------------------
(* _expand_lineup_slots on every slot_counts mapping (checked under          *)
(* SpecExpand: the pipeline of Spec on drawn league rules)                   *)

ExpandLabels == {"QB", "RB", "RB/WR/TE", "BE", "IR", "TAXI"}

\* the items of a dict: distinct keys in insertion order, each with a count
SlotCountMaps ==
    { counts \in UNION { [1..n -> ExpandLabels \X {0, 1, 2}] : n \in 0..3 } :
        \A i, j \in 1..Len(counts) : counts[i][1] = counts[j][1] => i = j }

InitExpand ==
    /\ roster \in { <<>>, << Player("RB", {"RB", "RB/WR/TE"}, "RB", 10000) >> }
    /\ slot_counts \in SlotCountMaps
    /\ tws = NoValue
    /\ df_row = NoValue
    /\ pc = "start"
    /\ SurvivorIdle
    /\ ReportsIdle

SpecExpand == InitExpand /\ [][Next]_vars

\* how many times the label is in the list
CountIn(list, label) == Cardinality({i \in 1..Len(list) : list[i] = label})

\* the keys of slot_counts that are not excluded
KeptKeys == {k \in 1..Len(slot_counts) : slot_counts[k][1] \notin EXPAND_EXCLUDES}

\* C23: the list _expand_lineup_slots returns has no label of the exclusion
\* set of the function (BE, BN, IR, TAXI) and has every other label of
\* slot_counts, counts being 0 or more, exactly count times, so its
\* length is the sum of the counts of the labels that are not excluded; the
\* same label/count pairs in another key order expand to the same multiset.
C23_ExpandCounts ==
    pc = "scored" =>
        /\ \A i \in 1..Len(Slots) : Slots[i] \notin EXPAND_EXCLUDES
        /\ \A k \in KeptKeys : CountIn(Slots, slot_counts[k][1]) = slot_counts[k][2]
        /\ \A i \in 1..Len(Slots) : \E k \in KeptKeys : Slots[i] = slot_counts[k][1]
        /\ Len(Slots) = SumOver([k \in KeptKeys |-> slot_counts[k][2]], KeptKeys)
        /\ \A counts \in Orderings(slot_counts) :
              \A label \in ExpandLabels :
                  CountIn(expand_lineup_slots(counts), label) = CountIn(Slots, label)

\* rules with an excluded label between two kept ones, one of them twice
C23_Witness ==
    /\ pc = "scored"
    /\ Len(slot_counts) = 3
    /\ slot_counts[2][1] \in EXPAND_EXCLUDES
    /\ slot_counts[2][2] = 2
    /\ slot_counts[1][2] = 2
    /\ slot_counts[3][2] = 1
    /\ slot_counts[1][1] \notin EXPAND_EXCLUDES
    /\ slot_counts[3][1] \notin EXPAND_EXCLUDES
    /\ Slots = <<slot_counts[1][1], slot_counts[1][1], slot_counts[3][1]>>

-----------------------------------------------------------------------------
(* espn_lineup._pos: the canonical form of a position or slot label.  A    *)
(* text is a sequence of characters; the argument is None, a text, or an   *)
(* object with a position attribute.                                       *)

NoneValue == [kind |-> "none"]

Text(chars) == [kind |-> "str", text |-> chars]

WithPosition(chars) == [kind |-> "obj", position |-> chars]

\* str.isspace for the characters drawn
is_space(c) == c \in {" ", "\t"}

\* a strip that drops at most one whitespace character at each end
strip_one(chars) ==
    LET from == IF Len(chars) > 0 /\ is_space(chars[1]) THEN 2 ELSE 1
        to == IF Len(chars) >= from /\ is_space(chars[Len(chars)])
              THEN Len(chars) - 1 ELSE Len(chars)
    IN SubSeq(chars, from, to)

\* str.strip(): the whitespace of both ends is dropped
strip(chars) ==
    LET keep == {i \in 1..Len(chars) : ~is_space(chars[i])}
    IN IF keep = {} THEN <<>> ELSE SubSeq(chars, SetMin(keep), SetMax(keep))

upper_char(c) ==
    CASE c = "d" -> "D"
      [] c = "e" -> "E"
      [] c = "q" -> "Q"
      [] OTHER -> c

\* str.upper()
upper(chars) == [i \in 1..Len(chars) |-> upper_char(chars[i])]

\* text.replace(" ", ""): the spaces are removed, other whitespace stays
remove_spaces(chars) == SelectSeq(chars, LAMBDA c : c # " ")

\* sub in text
contains(chars, sub) ==
    \E i \in 1..(Len(chars) - Len(sub) + 1) : SubSeq(chars, i, i + Len(sub) - 1) = sub

DST_TEXT == <<"D", "S", "T">>

DEF_TEXT == <<"D", "E", "F">>

\* {"D/ST", "DST", "D", "DEF", "DST/DEF"}
DefenseAliases ==
    {<<"D", "/", "S", "T">>, DST_TEXT, <<"D">>, DEF_TEXT, DST_TEXT \o <<"/">> \o DEF_TEXT}

\* str(raw or "") with raw = value.position for an object that has one
raw_text(value) ==
    CASE value.kind = "obj" -> value.position
      [] value.kind = "str" -> value.text

pos(value) ==
    IF value.kind = "none" THEN <<>>
    ELSE LET stripped == upper(strip(raw_text(value)))
         IN IF stripped = <<>> THEN <<>>
            ELSE LET text == remove_spaces(stripped)
                 IN IF text \in DefenseAliases THEN DST_TEXT
                    ELSE IF contains(text, DST_TEXT) \/ contains(text, DEF_TEXT) THEN DST_TEXT
                    ELSE text

MaxLabelLen == 4

\* D is drawn in lower case, so that both cases of it reach _pos
LabelChars == {"d", "S", "T", "E", "F", "/", " ", "\t", "q"}

RECURSIVE TextsOfLen(_)
TextsOfLen(n) ==
    IF n = 0 THEN {<<>>}
    ELSE {Append(t, c) : t \in TextsOfLen(n - 1), c \in LabelChars}

\* the texts of at most longest characters
TextsUpTo(longest) == UNION {TextsOfLen(n) : n \in 0..longest}

\* "DST/DEF", " dst / def ", "D / ST", "\tDeF Q\t"
LongLabels ==
    {DST_TEXT \o <<"/">> \o DEF_TEXT,
     <<" ", "d", "S", "T", " ", "/", " ", "d", "e", "F", " ">>,
     <<"D", " ", "/", " ", "S", "T">>,
     <<"\t", "D", "e", "F", " ", "q", "\t">>}

RawLabels(longest) ==
    {NoneValue} \cup {Text(t) : t \in TextsUpTo(longest) \cup LongLabels}
                \cup {WithPosition(t) : t \in TextsOfLen(2) \cup LongLabels}

InitPos ==
    /\ pos_raw \in RawLabels(MaxLabelLen)
    /\ pos_once = <<>>
    /\ pos_twice = <<>>
    /\ pos_pc = "start"
    /\ ScoringIdle /\ SurvivorIdle /\ EfficiencyIdle /\ PirIdle /\ SeasonIdle
    /\ ReadIdle /\ LcwIdle /\ HttpIdle

\* _pos(raw)
PosOnce ==
    /\ pos_pc = "start"
    /\ pos_once' = pos(pos_raw)
    /\ pos_pc' = "once"
    /\ UNCHANGED <<pos_raw, pos_twice, scoringVars, survivorVars, effVars, pirVars,
                   seasonVars, readVars, lcwVars, httpVars>>

\* _pos of the label _pos returned
PosTwice ==
    /\ pos_pc = "once"
    /\ pos_twice' = pos(Text(pos_once))
    /\ pos_pc' = "twice"
    /\ UNCHANGED <<pos_raw, pos_once, scoringVars, survivorVars, effVars, pirVars,
                   seasonVars, readVars, lcwVars, httpVars>>

NextPos == PosOnce \/ PosTwice

SpecPos == InitPos /\ [][NextPos]_vars

\* C24: label canonicalization is idempotent: for every raw label (any case,
\* surrounding or inner spaces, any defense alias or text containing DST or
\* DEF) _pos(_pos(x)) = _pos(x)
C24_PosIdempotent == pos_pc = "twice" => pos_twice = pos_once

\* a lower-case defense alias with whitespace around and inside it has been
\* canonicalized twice
C24_Witness ==
    /\ pos_pc = "twice"
    /\ pos_raw = Text(<<" ", "d", "S", "T", " ", "/", " ", "d", "e", "F", " ">>)
    /\ pos_once = DST_TEXT
    /\ pos_twice = DST_TEXT

\* a label that is not a defense alias keeps its inner tab and loses its
\* spaces and its case
C24_WitnessPlain ==
    /\ pos_pc = "twice"
    /\ pos_raw = Text(<<" ", "q", "\t", "E">>)
    /\ pos_once = <<"Q", "\t", "E">>
    /\ pos_twice = pos_once

-----------------------------------------------------------------------------
(* EffStat.efficiency of efficiency.py, the derived ratio the tests and     *)
(* format_efficiency_table read after the calls of update_efficiency.  A   *)
(* ratio is a pair <<numerator, denominator>>; a denominator of 0 stands   *)
(* for the ZeroDivisionError of a division by zero.                        *)

\* actual_sum / optimal_sum whatever optimal_sum is
efficiency_unguarded(stat) == <<stat.actual_sum, stat.optimal_sum>>

\* actual_sum / optimal_sum, 0 when optimal_sum is 0
efficiency(stat) ==
    IF stat.optimal_sum = 0 THEN <<0, 1>>
    ELSE Frac(stat.actual_sum, stat.optimal_sum)

MaxReads == 3

\* records with and without optimal points; a record with points and no
\* optimal points is a TeamWeekScore built with the default optimal_points
ReadScoreChoices ==
    { Score(t, w, v[1], v[2]) :
        t \in 1..2, w \in 1..2,
        v \in {<<0, 0>>, <<90000, 0>>, <<100000, 120000>>} }

\* the records of tests/test_efficiency_table.py
TestScores ==
    << Score(1, 1, 100000, 120000), Score(1, 1, 200000, 300000),
       Score(1, 2, 90000, 110000), Score(2, 1, 95000, 100000),
       Score(2, 2, 105000, 130000), Score(3, 1, 80000, 90000),
       Score(3, 2, 85000, 100000) >>

ReadBatches == {<<>>, TestScores} \cup {<<a>> : a \in ReadScoreChoices}

InitRead ==
    /\ stats = <<>> /\ seen = {} /\ delivered = <<>>
    /\ eff_values = <<>>
    /\ eff_pc = "updating"
    /\ ScoringIdle /\ SurvivorIdle /\ PirIdle /\ SeasonIdle /\ PosIdle /\ LcwIdle
    /\ HttpIdle

\* update_efficiency(stats, week_scores, seen=dedupe_seen), week after week
UpdateBeforeRead ==
    /\ eff_pc = "updating"
    /\ Len(delivered) < MaxReads
    /\ \E batch \in ReadBatches :
          LET after == update_efficiency(stats, batch, seen)
          IN  /\ stats' = after.stats
              /\ seen' = after.seen
              /\ delivered' = Append(delivered, batch)
    /\ UNCHANGED <<scoringVars, survivorVars, pirVars, seasonVars, posVars, readVars,
                   lcwVars, httpVars>>

\* stats[team].efficiency read for every team of the map
ReadEfficiency ==
    /\ eff_pc = "updating"
    /\ eff_values' = [t \in DOMAIN stats |-> efficiency(stats[t])]
    /\ eff_pc' = "read"
    /\ UNCHANGED <<scoringVars, survivorVars, effVars, pirVars, seasonVars, posVars,
                   lcwVars, httpVars>>

NextRead == UpdateBeforeRead \/ ReadEfficiency

SpecRead == InitRead /\ [][NextRead]_vars

\* C25: after any calls of update_efficiency every team's efficiency is
\* actual_sum / optimal_sum when optimal_sum is not 0 and 0 when it is 0, and
\* reading it never divides by zero
C25_EfficiencyRatio ==
    eff_pc = "read" =>
        /\ DOMAIN eff_values = DOMAIN stats
        /\ \A t \in DOMAIN stats :
              /\ eff_values[t][2] > 0
              /\ stats[t].optimal_sum # 0 =>
                    eff_values[t][1] * stats[t].optimal_sum =
                        stats[t].actual_sum * eff_values[t][2]
              /\ stats[t].optimal_sum = 0 => eff_values[t][1] = 0
        /\ delivered = <<TestScores>> =>
              /\ eff_values[1] = Frac(190, 230)
              /\ eff_values[2] = Frac(200, 230)
              /\ eff_values[3] = Frac(165, 190)

\* the efficiency of a team whose accepted records all have optimal_points 0,
\* one of them with points, has been read next to a team with a ratio
C25_Witness ==
    /\ eff_pc = "read"
    /\ 1 \in DOMAIN stats /\ 2 \in DOMAIN stats
    /\ stats[1].weeks = 2 /\ stats[1].optimal_sum = 0 /\ stats[1].actual_sum = 90000
    /\ eff_values[1] = <<0, 1>>
    /\ stats[2].optimal_sum = 120000
    /\ eff_values[2] = <<5, 6>>

\* the efficiencies of the test's three teams have been read
C25_WitnessTest ==
    /\ eff_pc = "read"
    /\ delivered = <<TestScores>>
    /\ eff_values[1] = <<19, 23>>

-----------------------------------------------------------------------------
(* espn_client.last_completed_week: the scan of the weeks' matchups for    *)
(* the last week of an unbroken run of complete weeks.  An absent value    *)
(* (None, or a key the payload lacks) is None, a present one Some(v).      *)

\* (matchup.get("winner") or "").strip().upper(), for the texts drawn; an
\* absent winner is the empty text
winner_text(winner) ==
    CASE winner = "home" -> "HOME"
      [] winner = " tie " -> "TIE"
      [] winner = "away " -> "AWAY"
      [] winner = "undecided" -> "UNDECIDED"
      [] OTHER -> winner

\* the matchups of the scoring period, those without a period included
relevant_matchups(payload) ==
    SelectSeq(payload.schedule,
              LAMBDA matchup : \/ payload.scoringPeriodId = None
                               \/ matchup.matchupPeriodId = None
                               \/ matchup.matchupPeriodId = payload.scoringPeriodId)

is_week_complete(payload) ==
    IF Len(payload.schedule) = 0 THEN FALSE
    ELSE LET relevant == IF Len(relevant_matchups(payload)) = 0 THEN payload.schedule
                         ELSE relevant_matchups(payload)
         IN \A i \in 1..Len(relevant) :
               winner_text(relevant[i].winner) \in {"HOME", "AWAY", "TIE"}

\* the integers among the four period keys of settings["status"]
status_candidates(status) ==
    {status[k][1] : k \in {k \in DOMAIN status : status[k] # None}}

\* an end_week that int() rejects
Unparseable == <<0, 0>>

\* lines 652-665: the last week the scan may reach
upper_bound(args) ==
    LET regular_weeks == args.matchupPeriodCount
        candidates == status_candidates(args.status)
        first == IF args.end_week = Unparseable THEN args.start - 1
                 ELSE IF args.end_week # None THEN args.end_week[1]
                 ELSE IF regular_weeks # 0 THEN regular_weeks
                 ELSE IF candidates # {} THEN SetMax(candidates)
                 ELSE args.start - 1
    IN IF regular_weeks # 0
       THEN (IF (IF first > 0 THEN first ELSE 0) < regular_weeks
             THEN (IF first > 0 THEN first ELSE 0) ELSE regular_weeks)
       ELSE first

\* a loop body that goes on to the next week after an incomplete one
scan_step_skip(last_complete, w, complete) ==
    IF complete THEN [last |-> w, broke |-> FALSE]
    ELSE [last |-> last_complete, broke |-> FALSE]

\* lines 673-676: the week recorded when complete, the loop left when not
scan_step(last_complete, w, complete) ==
    IF complete THEN [last |-> w, broke |-> FALSE]
    ELSE [last |-> last_complete, broke |-> TRUE]

MaxScanWeek == 4

Matchup(period, winner) == [matchupPeriodId |-> period, winner |-> winner]

MatchupsPayload(period, schedule) == [scoringPeriodId |-> period, schedule |-> schedule]

\* the payloads drawn for week w: every matchup decided; one undecided; no
\* schedule; and an undecided matchup of another period next to a decided
\* one of the week
PayloadKinds == {"decided", "undecided", "empty", "other period"}

PayloadOf(kind, w) ==
    CASE kind = "decided" ->
           MatchupsPayload(Some(w), <<Matchup(Some(w), "HOME"), Matchup(Some(w), " tie ")>>)
      [] kind = "undecided" ->
           MatchupsPayload(Some(w), <<Matchup(Some(w), "AWAY"), Matchup(Some(w), "UNDECIDED")>>)
      [] kind = "empty" -> MatchupsPayload(Some(w), <<>>)
      [] kind = "other period" ->
           MatchupsPayload(Some(w), <<Matchup(Some(w), "away "), Matchup(Some(w + 1), "")>>)

\* payloads whose periods do not select: no period on the payload or on the
\* matchup, and no matchup of the payload's period
OddPayloads ==
    << MatchupsPayload(None, <<Matchup(Some(7), "HOME"), Matchup(None, "home")>>),
       MatchupsPayload(Some(2), <<Matchup(Some(5), "TIE")>>),
       MatchupsPayload(Some(3), <<Matchup(None, "undecided"), Matchup(Some(3), "HOME")>>),
       MatchupsPayload(Some(4), <<Matchup(Some(4), "AWAY")>>) >>

Status(latest, current) ==
    [latestScoringPeriod |-> latest, currentScoringPeriod |-> current,
     finalScoringPeriod |-> None, finalScoringPeriodId |-> None]

LcwArgs(start, end, count, status, matchups) ==
    [start |-> start, end_week |-> end, matchupPeriodCount |-> count,
     status |-> status, matchups |-> matchups]

\* tests/test_espn_client_fetchers.py: weeks 1-3 decided, 4-5 undecided
TestFetcherArgs ==
    LcwArgs(1, None, 14, Status(Some(3), None),
            [w \in 1..14 |->
                IF w <= 3 THEN MatchupsPayload(Some(w), <<Matchup(Some(w), "HOME")>>)
                ELSE IF w <= 5
                THEN MatchupsPayload(Some(w), <<Matchup(Some(w), "UNDECIDED")>>)
                ELSE MatchupsPayload(Some(w), <<>>)])

\* tests/test_survivor_inclusive.py: weeks 3-8 decided, week 9 undecided
TestInclusiveArgs ==
    LcwArgs(3, Some(10), 14, Status(Some(8), None),
            [w \in 1..14 |->
                IF w \in 3..8 THEN MatchupsPayload(Some(w), <<Matchup(Some(w), "HOME")>>)
                ELSE IF w = 9
                THEN MatchupsPayload(Some(9), <<Matchup(Some(9), "UNDECIDED")>>)
                ELSE MatchupsPayload(Some(w), <<>>)])

\* the calls drawn for a season of last weeks, and the fixed ones
LcwInputs(last) ==
    { LcwArgs(start, end, settings[1], settings[2], matchups) :
        start \in 1..3,
        end \in {None, Some(0), Some(2), Some(last), Unparseable},
        settings \in {<<0, Status(None, None)>>,
                      <<0, Status(Some(2), Some(last))>>,
                      <<3, Status(Some(last), None)>>},
        matchups \in {[w \in 1..last |-> PayloadOf(kinds[w], w)] :
                         kinds \in [1..last -> PayloadKinds]} }
    \cup { LcwArgs(1, Some(4), 0, Status(None, None), OddPayloads),
           TestFetcherArgs, TestInclusiveArgs }

InitLcw ==
    /\ lcw_args \in LcwInputs(MaxScanWeek)
    /\ lcw_upper = 0 /\ lcw_week = 0 /\ lcw_last = 0
    /\ lcw_fetched = <<>> /\ lcw_result = 0 /\ lcw_pc = "start"
    /\ ScoringIdle /\ SurvivorIdle /\ EfficiencyIdle /\ PirIdle /\ SeasonIdle
    /\ PosIdle /\ ReadIdle /\ HttpIdle

\* lines 632-670: the bound, the early return, the loop's start
LcwEnter ==
    /\ lcw_pc = "start"
    /\ lcw_upper' = upper_bound(lcw_args)
    /\ IF upper_bound(lcw_args) < lcw_args.start
       THEN /\ lcw_result' = lcw_args.start - 1
            /\ lcw_pc' = "returned"
            /\ UNCHANGED <<lcw_week, lcw_last>>
       ELSE /\ lcw_last' = lcw_args.start - 1
            /\ lcw_week' = lcw_args.start
            /\ lcw_pc' = "loop"
            /\ UNCHANGED lcw_result
    /\ UNCHANGED <<lcw_args, lcw_fetched, scoringVars, survivorVars, effVars, pirVars,
                   seasonVars, posVars, readVars, httpVars>>

\* lines 671-676: one week fetched and tested
LcwIteration ==
    /\ lcw_pc = "loop"
    /\ lcw_week <= lcw_upper
    /\ LET step == scan_step(lcw_last, lcw_week,
                             is_week_complete(lcw_args.matchups[lcw_week]))
       IN  /\ lcw_fetched' = Append(lcw_fetched, lcw_week)
           /\ lcw_last' = step.last
           /\ IF step.broke
              THEN lcw_pc' = "broke" /\ UNCHANGED lcw_week
              ELSE lcw_pc' = "loop" /\ lcw_week' = lcw_week + 1
    /\ UNCHANGED <<lcw_args, lcw_upper, lcw_result, scoringVars, survivorVars, effVars,
                   pirVars, seasonVars, posVars, readVars, httpVars>>

\* line 678, after the break or the end of the range
LcwReturn ==
    /\ \/ lcw_pc = "broke"
       \/ lcw_pc = "loop" /\ lcw_week > lcw_upper
    /\ lcw_result' = lcw_last
    /\ lcw_pc' = "returned"
    /\ UNCHANGED <<lcw_args, lcw_upper, lcw_week, lcw_last, lcw_fetched, scoringVars,
                   survivorVars, effVars, pirVars, seasonVars, posVars, readVars, httpVars>>

NextLcw == LcwEnter \/ LcwIteration \/ LcwReturn

SpecLcw == InitLcw /\ [][NextLcw]_vars

\* week w of the call is complete
Complete(w) == is_week_complete(lcw_args.matchups[w])

\* the weeks from start_week on up to which every week is complete
CompleteRun ==
    {w \in lcw_args.start..lcw_upper : \A v \in lcw_args.start..w : Complete(v)}

C26_WitnessInclusive ==
    /\ lcw_pc = "returned"
    /\ lcw_args = TestInclusiveArgs
    /\ lcw_result = 8
    /\ lcw_fetched = <<3, 4, 5, 6, 7, 8, 9>>

\* start_week itself is incomplete, or lies beyond the bound
C26_WitnessNone ==
    /\ lcw_pc = "returned"
    /\ lcw_args.start = 2
    /\ lcw_result = 1
    /\ lcw_upper >= 2
    /\ lcw_fetched = <<2>>

-----------------------------------------------------------------------------
(* espn_client._json_get: the requests of one call, host after host, with  *)
(* the validation of each response.                                        *)

\* everything but the HTTP helpers and the run lock
coreVars ==
    <<scoringVars, survivorVars, effVars, pirVars, seasonVars, posVars, readVars, lcwVars>>

CoreIdle ==
    /\ ScoringIdle /\ SurvivorIdle /\ EfficiencyIdle /\ PirIdle /\ SeasonIdle
    /\ PosIdle /\ ReadIdle /\ LcwIdle

PRIMARY_HOST == "fantasy"

ALT_HOST == "lm-api-reads"

\* the alternate host first whenever ESPN_USE_ALT_HOST is set to some text
host_priority_when_set(env) ==
    IF env # None /\ env # Some("") THEN <<ALT_HOST, PRIMARY_HOST>>
    ELSE <<PRIMARY_HOST, ALT_HOST>>

\* _host_priority(): os.getenv("ESPN_USE_ALT_HOST") == "1"
host_priority(env) ==
    IF env = Some("1") THEN <<ALT_HOST, PRIMARY_HOST>>
    ELSE <<PRIMARY_HOST, ALT_HOST>>

\* int(retries) + 1, without the floor of one attempt
attempts_unclamped(retries) == retries + 1

\* max(1, int(retries) + 1)
attempts_of(retries) == IF retries + 1 > 1 THEN retries + 1 ELSE 1

\* content_type.lower(), for the content types drawn
lower_type(content_type) ==
    CASE content_type = "Application/JSON; charset=UTF-8" -> "application/json; charset=utf-8"
      [] OTHER -> content_type

\* "json" in text, for the lower-case content types drawn
has_json(content_type) ==
    content_type \in {"application/json", "application/json; charset=utf-8"}

\* what _SESSION.get did: raised a RequestException, or returned a response
\* with a status, a content type and a body that response.json() parses to
\* payload or rejects
Outcome(raised, status, content_type, parses, payload) ==
    [raised |-> raised, status |-> status, content_type |-> content_type,
     parses |-> parses, payload |-> payload]

GoodOutcomes ==
    { Outcome(FALSE, 200, "application/json", TRUE, "data"),
      Outcome(FALSE, 200, "Application/JSON; charset=UTF-8", TRUE, "data") }

\* a raised request, an error status with a JSON body, a parseable body that
\* is not declared JSON, and a JSON response whose body does not parse
BadOutcomes ==
    { Outcome(TRUE, 0, "", FALSE, ""),
      Outcome(FALSE, 500, "application/json", TRUE, "error"),
      Outcome(FALSE, 200, "text/html; charset=utf-8", TRUE, "page"),
      Outcome(FALSE, 200, "application/json", FALSE, "") }

Outcomes == GoodOutcomes \cup BadOutcomes

\* lines 130-138: the response whose payload is returned
accepted(outcome) ==
    /\ ~outcome.raised
    /\ outcome.status = 200
    /\ has_json(lower_type(outcome.content_type))
    /\ outcome.parses

Request(host, outcome) == [event |-> "request", host |-> host, outcome |-> outcome]

Sleep(host) == [event |-> "sleep", host |-> host, outcome |-> NoValue]

Payload(payload) == [kind |-> "payload", payload |-> payload]

RuntimeError == [kind |-> "RuntimeError", payload |-> ""]

MaxRetries == 1

\* ESPN_USE_ALT_HOST: unset, or set to a text
EnvValues == {None, Some("1"), Some("0"), Some("true"), Some("1 "), Some("")}

InitJsonGet ==
    /\ jg_args \in [retries : -2..MaxRetries, env : EnvValues]
    /\ jg_hosts = <<>> /\ jg_attempts = 0 /\ jg_host = 0 /\ jg_attempt = 0
    /\ jg_log = <<>> /\ jg_result = NoValue /\ jg_pc = "start"
    /\ CoreIdle /\ LeagueGetIdle /\ LockIdle

\* lines 100-108: the attempts per host and the order of the hosts
JsonGetEnter ==
    /\ jg_pc = "start"
    /\ jg_attempts' = attempts_of(jg_args.retries)
    /\ jg_hosts' = host_priority(jg_args.env)
    /\ jg_host' = 1
    /\ jg_attempt' = 0
    /\ jg_pc' = IF attempts_of(jg_args.retries) > 0 THEN "loop" ELSE "exhausted"
    /\ UNCHANGED <<jg_args, jg_log, jg_result, coreVars, lgsVars, lockVars>>

\* lines 116-146: one attempt, its validation, and the sleep before the
\* next attempt on the host
JsonGetAttempt ==
    /\ jg_pc = "loop"
    /\ \E outcome \in Outcomes :
          LET host == jg_hosts[jg_host]
              sleeps == jg_attempt < jg_attempts - 1
              last_host == jg_host = Len(jg_hosts)
          IN  IF accepted(outcome)
              THEN /\ jg_log' = Append(jg_log, Request(host, outcome))
                   /\ jg_result' = Payload(outcome.payload)
                   /\ jg_pc' = "returned"
                   /\ UNCHANGED <<jg_host, jg_attempt>>
              ELSE /\ jg_log' = IF sleeps
                                THEN jg_log \o <<Request(host, outcome), Sleep(host)>>
                                ELSE Append(jg_log, Request(host, outcome))
                   /\ jg_attempt' = IF sleeps THEN jg_attempt + 1 ELSE 0
                   /\ jg_host' = IF sleeps THEN jg_host ELSE jg_host + 1
                   /\ jg_pc' = IF ~sleeps /\ last_host THEN "exhausted" ELSE "loop"
                   /\ UNCHANGED jg_result
    /\ UNCHANGED <<jg_args, jg_hosts, jg_attempts, coreVars, lgsVars, lockVars>>

\* lines 150-159: both hosts used up
JsonGetRaise ==
    /\ jg_pc = "exhausted"
    /\ jg_result' = RuntimeError
    /\ jg_pc' = "raised"
    /\ UNCHANGED <<jg_args, jg_hosts, jg_attempts, jg_host, jg_attempt, jg_log, coreVars,
                   lgsVars, lockVars>>

NextJsonGet == JsonGetEnter \/ JsonGetAttempt \/ JsonGetRaise

SpecJsonGet == InitJsonGet /\ [][NextJsonGet]_vars

\* the call goes on while it can: nothing in it waits for another party
FairSpecJsonGet == SpecJsonGet /\ WF_vars(NextJsonGet)

\* the requests of the log, in order
Requests == SelectSeq(jg_log, LAMBDA entry : entry.event = "request")

RequestsOn(host) == SelectSeq(Requests, LAMBDA entry : entry.host = host)

\* a response with status 200, a JSON content type and a parseable body
Good(outcome) ==
    /\ ~outcome.raised
    /\ outcome.status = 200
    /\ outcome.content_type \in {"application/json", "Application/JSON; charset=UTF-8"}
    /\ outcome.parses

FirstHost == IF jg_args.env = Some("1") THEN ALT_HOST ELSE PRIMARY_HOST

SecondHost == IF jg_args.env = Some("1") THEN PRIMARY_HOST ELSE ALT_HOST

AttemptsPerHost == IF jg_args.retries >= 1 THEN jg_args.retries + 1 ELSE 1

JsonGetDone == jg_pc \in {"returned", "raised"}

\* C27: every attempt on the first-priority host (the primary one unless
\* ESPN_USE_ALT_HOST is exactly "1") comes before any on the second host; a
\* failed attempt is retried on the same host while attempts remain, then on
\* the next host; the payload returned is that of the first good response,
\* and no request follows it
C27_HostOrderAndFirstGood ==
    jg_pc \in {"loop", "exhausted", "returned", "raised"} =>
        /\ \A i \in 1..Len(Requests) : Requests[i].host \in {FirstHost, SecondHost}
        /\ \A i \in 1..Len(Requests) : \A j \in 1..Len(Requests) :
              i < j /\ Requests[j].host = FirstHost => Requests[i].host = FirstHost
        /\ \A i \in 1..(Len(Requests) - 1) :
              /\ ~Good(Requests[i].outcome)
              /\ Requests[i + 1].host =
                    IF i < AttemptsPerHost THEN FirstHost ELSE SecondHost
        /\ Len(Requests) > 0 /\ Good(Requests[Len(Requests)].outcome) =>
              /\ jg_pc = "returned"
              /\ jg_result = Payload(Requests[Len(Requests)].outcome.payload)
        /\ jg_pc = "returned" =>
              Len(Requests) > 0 /\ Good(Requests[Len(Requests)].outcome)
        /\ Len(Requests) > 0 => Requests[1].host = FirstHost

\* with ESPN_USE_ALT_HOST set to "true", a request that raised and an error
\* status on the primary host were followed by a failure and a good response
\* on the alternate host, whose payload was returned
C27_Witness ==
    /\ jg_pc = "returned"
    /\ jg_args.env = Some("true")
    /\ jg_args.retries = 1
    /\ Len(Requests) = 4
    /\ Requests[1].host = PRIMARY_HOST /\ Requests[1].outcome.raised
    /\ Requests[2].host = PRIMARY_HOST /\ Requests[2].outcome.status = 500
    /\ Requests[3].host = ALT_HOST /\ ~Requests[3].outcome.parses
    /\ Requests[4].host = ALT_HOST /\ Good(Requests[4].outcome)
    /\ jg_result = Payload("data")

\* with ESPN_USE_ALT_HOST = "1" the alternate host answered first
C27_WitnessAltFirst ==
    /\ jg_pc = "returned"
    /\ jg_args.env = Some("1")
    /\ Len(Requests) = 1
    /\ Requests[1].host = ALT_HOST

\* the events of the log are the attempts of the hosts in order, a sleep
\* between two attempts on a host and none after the last one
NoSleepAfterLastAttempt ==
    \A i \in 1..Len(jg_log) :
        jg_log[i].event = "sleep" =>
            /\ i > 1 /\ jg_log[i - 1].event = "request"
            /\ jg_log[i - 1].host = jg_log[i].host
            /\ Len(RequestsOn(jg_log[i].host)) < AttemptsPerHost
                  \/ (i < Len(jg_log) /\ jg_log[i + 1].event = "request"
                      /\ jg_log[i + 1].host = jg_log[i].host)

SleepsOn(host) ==
    Len(SelectSeq(jg_log, LAMBDA entry : entry.event = "sleep" /\ entry.host = host))

C30_Safety ==
    /\ jg_pc # "start" => NoSleepAfterLastAttempt
    /\ jg_pc = "raised" =>
          /\ Len(RequestsOn(FirstHost)) = AttemptsPerHost
          /\ Len(RequestsOn(SecondHost)) = AttemptsPerHost
          /\ Len(Requests) = 2 * AttemptsPerHost
          /\ \A i \in 1..Len(Requests) : ~Good(Requests[i].outcome)
          /\ jg_result = RuntimeError
          /\ SleepsOn(FirstHost) = AttemptsPerHost - 1
          /\ SleepsOn(SecondHost) = AttemptsPerHost - 1
          /\ jg_log[Len(jg_log)].event = "request"
    /\ jg_pc = "returned" =>
          LET last == jg_log[Len(jg_log)]
          IN  /\ last.event = "request"
              /\ last.outcome.status = 200
              /\ last.outcome.content_type \in
                    {"application/json", "Application/JSON; charset=UTF-8"}
              /\ jg_result = Payload(last.outcome.payload)
    /\ (jg_pc \in {"exhausted", "raised"} /\ \A i \in 1..Len(Requests) :
            ~Good(Requests[i].outcome)) => Len(Requests) = 2 * AttemptsPerHost
    /\ Len(Requests) <= 2 * AttemptsPerHost

\* C30: _json_get always terminates; when every response fails or every
\* request raises it makes exactly max(1, retries + 1) attempts on each of
\* the two hosts and then raises RuntimeError; it never returns a payload of
\* a response that is not 200 or not JSON; it does not sleep after the last
\* attempt on a host
C30_TerminatesAfterAllAttempts == []C30_Safety /\ <>JsonGetDone

\* every request failed, two of them by raising: four attempts with retries
\* = 1, a sleep after the first attempt of each host only, then RuntimeError
C30_Witness ==
    /\ jg_pc = "raised"
    /\ jg_args.retries = 1
    /\ Len(Requests) = 4
    /\ Requests[1].outcome.raised /\ Requests[4].outcome.raised
    /\ Requests[2].outcome.status = 500
    /\ jg_log[2].event = "sleep" /\ jg_log[4].event = "request"
    /\ Len(jg_log) = 6

\* retries below 0 still give one attempt on each host
C30_WitnessNegativeRetries ==
    /\ jg_pc = "raised"
    /\ jg_args.retries = -2
    /\ Len(jg_log) = 2
    /\ \A i \in 1..2 : jg_log[i].event = "request" /\ jg_log[i].outcome.raised

-----------------------------------------------------------------------------
(* espn_safe.league_get_safe: the retry loop around self._get.             *)

\* the delays in tenths of a second: [0.6, 1.2, 2.4]
http_backoff_delays == <<6, 12, 24>>

\* text.lstrip()
lstrip(chars) ==
    LET keep == {i \in 1..Len(chars) : ~is_space(chars[i])}
    IN IF keep = {} THEN <<>> ELSE SubSeq(chars, SetMin(keep), Len(chars))

\* content_type.lower().startswith("application/json"), for the content
\* types drawn
starts_with_json(content_type) ==
    lower_type(content_type) \in {"application/json", "application/json; charset=utf-8"}

is_json_response(response) ==
    /\ starts_with_json(response.content_type)
    /\ lstrip(response.text) # <<>>
    /\ lstrip(response.text)[1] \in {"{", "["}

\* a loop that sleeps and goes on after every failed attempt
retry_always(attempt) == TRUE

\* line 89: attempt < len(http_backoff_delays)
should_retry(attempt) == attempt < Len(http_backoff_delays)

\* a response of self._get: its status, content type and text, and whether
\* response.json() parses the text (to data) or raises
Response(status, content_type, chars, parses, data) ==
    [status |-> status, content_type |-> content_type, text |-> chars,
     parses |-> parses, data |-> data]

\* '{"data": 42}' and ' [1]'
JsonResponses ==
    { Response(200, "application/json", <<"{", "d", "}">>, TRUE, "object"),
      Response(200, "Application/JSON; charset=UTF-8", <<" ", "[", "1", "]">>, TRUE, "list") }

\* an HTML page, a JSON-like text declared as HTML, an empty JSON body, a
\* JSON body that does not start as JSON, and one that does not parse
FailingResponses ==
    { Response(200, "text/html; charset=utf-8", <<"<", "p", ">">>, FALSE, ""),
      Response(403, "text/html; charset=utf-8", <<"{", "d", "}">>, TRUE, "object"),
      Response(200, "application/json", <<" ", "\t">>, FALSE, ""),
      Response(200, "application/json", <<"n", "o">>, FALSE, ""),
      Response(200, "application/json", <<"{", "d">>, FALSE, "") }

Responses == JsonResponses \cup FailingResponses

LogRecord(kind, status, data) == [kind |-> kind, status |-> status, data |-> data]

Returned(data) == [kind |-> "returned", data |-> data]

Raised == [kind |-> "RuntimeError", data |-> ""]

InitLeagueGet ==
    /\ lgs_attempt = 0 /\ lgs_calls = <<>> /\ lgs_log = <<>> /\ lgs_slept = <<>>
    /\ lgs_result = NoValue /\ lgs_pc = "loop"
    /\ CoreIdle /\ JsonGetIdle /\ LockIdle

\* lines 50-95: one pass of the loop: the call, the log record, and the
\* return, the sleep or the raise
LeagueGetAttempt ==
    /\ lgs_pc = "loop"
    /\ lgs_attempt <= Len(http_backoff_delays)
    /\ \E response \in Responses :
          LET delays == http_backoff_delays \o <<0>>
              retry == should_retry(lgs_attempt)
          IN  /\ lgs_calls' = Append(lgs_calls, response)
              /\ IF is_json_response(response) /\ response.parses
                 THEN /\ lgs_log' = Append(lgs_log, LogRecord("data", response.status,
                                                               response.data))
                      /\ lgs_result' = Returned(response.data)
                      /\ lgs_pc' = "returned"
                      /\ UNCHANGED <<lgs_attempt, lgs_slept>>
                 ELSE /\ lgs_log' = Append(lgs_log,
                                           LogRecord(IF is_json_response(response)
                                                     THEN "json_error" ELSE "non_json",
                                                     response.status, ""))
                      /\ IF retry
                         THEN /\ lgs_slept' = Append(lgs_slept, delays[lgs_attempt + 1])
                              /\ lgs_attempt' = lgs_attempt + 1
                              /\ UNCHANGED <<lgs_result, lgs_pc>>
                         ELSE /\ lgs_result' = Raised
                              /\ lgs_pc' = "raised"
                              /\ UNCHANGED <<lgs_attempt, lgs_slept>>
    /\ UNCHANGED <<coreVars, jgVars, lockVars>>

NextLeagueGet == LeagueGetAttempt

SpecLeagueGet == InitLeagueGet /\ [][NextLeagueGet]_vars

\* the response looks like JSON and parses: a JSON content type, a text
\* whose first character after the leading whitespace is { or [, no error
LooksAndParses(response) ==
    /\ response.content_type \in {"application/json", "Application/JSON; charset=UTF-8"}
    /\ \E i \in 1..Len(response.text) :
          /\ response.text[i] \in {"{", "["}
          /\ \A j \in 1..(i - 1) : response.text[j] \in {" ", "\t"}
    /\ response.parses

\* C28: league_get_safe calls self._get at most len(http_backoff_delays) + 1
\* = 4 times; it returns the parsed data of the first response that looks
\* like JSON and parses, with no further call; it logs exactly one record
\* per attempt; and it raises RuntimeError after the 4th attempt when all
\* four responses are non-JSON or unparseable
C28_BoundedRetries ==
    lgs_pc # "idle" =>
        /\ Len(lgs_calls) <= Len(http_backoff_delays) + 1
        /\ Len(http_backoff_delays) + 1 = 4
        /\ Len(lgs_log) = Len(lgs_calls)
        /\ \A i \in 1..(Len(lgs_calls) - 1) : ~LooksAndParses(lgs_calls[i])
        /\ lgs_pc = "returned" <=>
              Len(lgs_calls) > 0 /\ LooksAndParses(lgs_calls[Len(lgs_calls)])
        /\ lgs_pc = "returned" =>
              /\ lgs_result = Returned(lgs_calls[Len(lgs_calls)].data)
              /\ lgs_log[Len(lgs_log)].kind = "data"
        /\ lgs_pc = "raised" <=>
              Len(lgs_calls) = 4 /\ ~LooksAndParses(lgs_calls[4])
        /\ lgs_pc = "raised" => lgs_result = Raised
        /\ lgs_pc = "loop" => Len(lgs_calls) < 4 /\ lgs_attempt = Len(lgs_calls)

\* four failing responses, of them an HTML page and an unparseable JSON
\* body, were logged one by one and the call raised
C28_Witness ==
    /\ lgs_pc = "raised"
    /\ Len(lgs_calls) = 4
    /\ Len(lgs_log) = 4
    /\ lgs_log[1].kind = "non_json"
    /\ lgs_log[4].kind = "json_error"
    /\ lgs_slept = http_backoff_delays

\* the third response was the first to parse and its data was returned
C28_WitnessReturn ==
    /\ lgs_pc = "returned"
    /\ Len(lgs_calls) = 3
    /\ lgs_result = Returned("list")
    /\ Len(lgs_log) = 3

-----------------------------------------------------------------------------
(* The run lock of main.py: two invocations of main, each going through    *)
(* _acquire_lock (time.time(), LOCK_PATH.exists(), LOCK_PATH.stat(),       *)
(* LOCK_PATH.write_text) and, when it got the lock, through the run and    *)
(* the unlink of the finally clause.  Every file system call is a step of  *)
(* its own: the two processes share nothing but the file.                  *)

LOCK_MAX_AGE_SECONDS == 300

Invocations == {1, 2}

MaxTicks == 2

\* the clock moves by half the maximal age
TickSeconds == LOCK_MAX_AGE_SECONDS \div 2

LockFile(mtime, writer) == [mtime |-> mtime, writer |-> writer]

\* the lock file a killed run left behind; 0 is no invocation of the two
LeftoverFile == LockFile(0, 0)

Invocation(at, now, acquired, wrote_at) ==
    [at |-> at, now |-> now, acquired |-> acquired, wrote_at |-> wrote_at]

InitLock ==
    /\ lk_file \in {NoValue, LeftoverFile}
    /\ lk_clock = 0
    /\ lk_procs = [p \in Invocations |-> Invocation("start", 0, FALSE, 0)]
    /\ lk_unlinked = <<>>
    /\ CoreIdle /\ JsonGetIdle /\ LeagueGetIdle

\* time passes
Tick ==
    /\ lk_clock < MaxTicks * TickSeconds
    /\ lk_clock' = lk_clock + TickSeconds
    /\ UNCHANGED <<lk_file, lk_procs, lk_unlinked, coreVars, jgVars, lgsVars>>

\* line 141: now = time.time()
LockNow(p) ==
    /\ lk_procs[p].at = "start"
    /\ lk_procs' = [lk_procs EXCEPT ![p].at = "exists", ![p].now = lk_clock]
    /\ UNCHANGED <<lk_file, lk_clock, lk_unlinked, coreVars, jgVars, lgsVars>>

\* line 143: LOCK_PATH.exists()
LockExists(p) ==
    /\ lk_procs[p].at = "exists"
    /\ lk_procs' = [lk_procs EXCEPT
                       ![p].at = IF lk_file = NoValue THEN "write" ELSE "stat"]
    /\ UNCHANGED <<lk_file, lk_clock, lk_unlinked, coreVars, jgVars, lgsVars>>

\* lines 144-149: the age of the file; a file removed since the test of
\* line 143 raises FileNotFoundError, which is passed over.  main returns
\* when _acquire_lock returns False (lines 163-165)
LockStat(p) ==
    /\ lk_procs[p].at = "stat"
    /\ lk_procs' = [lk_procs EXCEPT
                       ![p].at = IF lk_file = NoValue THEN "write"
                                 ELSE IF lk_procs[p].now - lk_file.mtime
                                            < LOCK_MAX_AGE_SECONDS
                                 THEN "skipped" ELSE "write"]
    /\ UNCHANGED <<lk_file, lk_clock, lk_unlinked, coreVars, jgVars, lgsVars>>

\* lines 151-152: the file written, True returned
LockWrite(p) ==
    /\ lk_procs[p].at = "write"
    /\ lk_file' = LockFile(lk_clock, p)
    /\ lk_procs' = [lk_procs EXCEPT ![p].at = "running", ![p].acquired = TRUE,
                                    ![p].wrote_at = lk_clock]
    /\ UNCHANGED <<lk_clock, lk_unlinked, coreVars, jgVars, lgsVars>>

\* lines 302-307: after the fetches and the posts, LOCK_PATH.unlink() with
\* FileNotFoundError passed over
MainFinally(p) ==
    /\ lk_procs[p].at = "running"
    /\ lk_procs' = [lk_procs EXCEPT ![p].at = "done"]
    /\ IF lk_file = NoValue
       THEN UNCHANGED <<lk_file, lk_unlinked>>
       ELSE /\ lk_file' = NoValue
            /\ lk_unlinked' = Append(lk_unlinked, [by |-> p, of |-> lk_file.writer])
    /\ UNCHANGED <<lk_clock, coreVars, jgVars, lgsVars>>

NextLock ==
    \/ Tick
    \/ \E p \in Invocations :
          LockNow(p) \/ LockExists(p) \/ LockStat(p) \/ LockWrite(p) \/ MainFinally(p)

SpecLock == InitLock /\ [][NextLock]_vars

\* invocation p got True and is fetching and posting
Running(p) == lk_procs[p].at = "running"

\* the lock p wrote is less than LOCK_MAX_AGE_SECONDS old
FreshLock(p) == lk_clock - lk_procs[p].wrote_at < LOCK_MAX_AGE_SECONDS

\* C29: the run lock gives mutual exclusion: of two invocations whose
\* _acquire_lock calls interleave, at most one gets True and runs while the
\* other's lock is less than LOCK_MAX_AGE_SECONDS old, and an invocation
\* that did not acquire the lock never deletes the lock file of the one
\* that did
C29_MutualExclusion ==
    /\ \A p \in Invocations : \A q \in Invocations \ {p} :
          Running(p) /\ Running(q) => ~FreshLock(p) \/ ~FreshLock(q)
    /\ \A i \in 1..Len(lk_unlinked) :
          lk_unlinked[i].by # lk_unlinked[i].of => lk_procs[lk_unlinked[i].by].acquired

\* an invocation that returned without the lock has removed no file
SkippedNeverUnlinks ==
    \A i \in 1..Len(lk_unlinked) : lk_procs[lk_unlinked[i].by].acquired

\* an invocation that found a fresh lock at its test of the age returns
\* without writing
FreshLockSeenSkips ==
    [][\A p \in Invocations :
          (/\ lk_procs[p].at = "stat" /\ lk_procs'[p].at # "stat"
           /\ lk_file # NoValue
           /\ lk_procs[p].now - lk_file.mtime < LOCK_MAX_AGE_SECONDS)
          => lk_procs'[p].at = "skipped"]_vars

=============================================================================
